---- MODULE Spec2Model ----
(***************************************************************************)
(* A model of the bk-node REST backend: the request validation,           *)
(* normalisation and persistence-update pipeline of the users, auth,      *)
(* flats and questions routes.                                             *)
(*                                                                         *)
(* JavaScript values are tagged records, strings are sequences of         *)
(* one-character strings so that trim(), toUpperCase(), length, the mail  *)
(* pattern and JSON.parse are computed and not assumed.                   *)
(***************************************************************************)
EXTENDS Integers, Sequences, FiniteSets, TLC

VARIABLES
    addrBody,     \* parseAddress: the request body handed to it
    addrOut,      \* parseAddress: its return value, or Pending
    req,          \* the request being handled, or NoReq
    resp,         \* the response of its handler, or NoResp until it has run
    questions,    \* the questions collection: id -> document or NoDoc
    flats,        \* the flats collection: id -> document or NoDoc
    nextImageId,  \* the identifier the next image record gets
    cleanup,      \* the deletions of stored image bytes started so far
    users,        \* the users collection: id -> document or NoDoc
    held,         \* the token pair the client received last, or NoTokens
    userFlats,    \* the UserFlat join collection, in creation order
    assign,       \* the POST /assign-flat requests in flight, by slot
    uploads,      \* the POST /flats/:id/images requests in flight, by slot
    signups,      \* the POST /auth/register requests in flight, by slot
    infoCards,    \* the InfoCard collection, by infoCardId
    migration     \* the flats collection as the backfill script sees it, and its runs

addrVars == <<addrBody, addrOut>>
httpVars == <<req, resp>>
qVars == <<questions>>
flatVars == <<flats, nextImageId, cleanup>>
userVars == <<users, held>>
assignVars == <<userFlats, assign>>
imageVars == <<uploads, signups>>
restVars == <<infoCards, migration>>
vars == <<addrBody, addrOut, req, resp, questions, flats, nextImageId, cleanup,
          users, held, userFlats, assign, uploads, signups, infoCards, migration>>

(***************************************************************************)
(* JavaScript values                                                       *)
(***************************************************************************)
Undef == [t |-> "undefined"]
Null == [t |-> "null"]
S(chars) == [t |-> "string", s |-> chars]
N(n) == [t |-> "number", n |-> n]
NaN == [t |-> "number", nan |-> TRUE]
B(b) == [t |-> "boolean", b |-> b]
Obj(fields) == [t |-> "object", o |-> fields]
Arr(items) == [t |-> "array", a |-> items]
Pending == [t |-> "pending"]

NoFields == [k \in {} |-> Undef]

IsString(v) == v.t = "string"
IsNumber(v) == v.t = "number"
IsNaN(v) == v.t = "number" /\ "nan" \in DOMAIN v
IsNullish(v) == v.t \in {"undefined", "null"}
\* typeof v === 'object'
TypeofObject(v) == v.t \in {"object", "array", "null"}

\* ToBoolean
Truthy(v) ==
    CASE v.t = "undefined" -> FALSE
      [] v.t = "null" -> FALSE
      [] v.t = "string" -> v.s # <<>>
      [] v.t = "number" -> ~IsNaN(v) /\ v.n # 0
      [] v.t = "boolean" -> v.b
      [] OTHER -> TRUE

\* body?.key and obj.key: a missing property reads as undefined
Get(v, k) ==
    IF v.t = "object" /\ k \in DOMAIN v.o THEN v.o[k] ELSE Undef

\* a ?? b ?? c
Coalesce(a, b, c) ==
    IF ~IsNullish(a) THEN a ELSE IF ~IsNullish(b) THEN b ELSE c

\* a payload holds only the keys that are present
Payload(fields) ==
    Obj([k \in {x \in DOMAIN fields : fields[x] # Undef} |-> fields[k]])

(***************************************************************************)
(* Strings                                                                 *)
(***************************************************************************)
LowerChars ==
    <<"a", "b", "c", "d", "e", "f", "g", "h", "i", "j", "k", "l", "m",
      "n", "o", "p", "q", "r", "s", "t", "u", "v", "w", "x", "y", "z">>
UpperChars ==
    <<"A", "B", "C", "D", "E", "F", "G", "H", "I", "J", "K", "L", "M",
      "N", "O", "P", "Q", "R", "S", "T", "U", "V", "W", "X", "Y", "Z">>
Digits == <<"0", "1", "2", "3", "4", "5", "6", "7", "8", "9">>

IsSpace(c) == c = " "

UpperChar(c) ==
    IF \E i \in DOMAIN LowerChars : LowerChars[i] = c
    THEN UpperChars[CHOOSE i \in DOMAIN LowerChars : LowerChars[i] = c]
    ELSE c
LowerChar(c) ==
    IF \E i \in DOMAIN UpperChars : UpperChars[i] = c
    THEN LowerChars[CHOOSE i \in DOMAIN UpperChars : UpperChars[i] = c]
    ELSE c

toUpperCase(s) == [i \in DOMAIN s |-> UpperChar(s[i])]
toLowerCase(s) == [i \in DOMAIN s |-> LowerChar(s[i])]

RECURSIVE TrimLeft(_)
TrimLeft(s) ==
    IF s # <<>> /\ IsSpace(Head(s)) THEN TrimLeft(Tail(s)) ELSE s
RECURSIVE TrimRight(_)
TrimRight(s) ==
    IF s # <<>> /\ IsSpace(s[Len(s)])
    THEN TrimRight(SubSeq(s, 1, Len(s) - 1))
    ELSE s
trim(s) == TrimRight(TrimLeft(s))

\* String(v) for the values the handlers convert
ToStr(v) ==
    CASE v.t = "string" -> v.s
      [] v.t = "number" /\ ~IsNaN(v) /\ v.n \in 0..9 -> <<Digits[v.n + 1]>>
      [] v.t = "number" /\ ~IsNaN(v) /\ v.n \in 10..99 ->
            <<Digits[(v.n \div 10) + 1], Digits[(v.n % 10) + 1]>>
      [] v.t = "number" /\ IsNaN(v) -> <<"N", "a", "N">>
      [] v.t = "boolean" ->
            IF v.b THEN <<"t", "r", "u", "e">> ELSE <<"f", "a", "l", "s", "e">>
      [] v.t = "null" -> <<"n", "u", "l", "l">>
      [] v.t = "undefined" -> <<"u", "n", "d", "e", "f", "i", "n", "e", "d">>
      [] OTHER -> <<"[", "o", "b", "j", "e", "c", "t", " ", "O", "b", "j", "e", "c", "t", "]">>

(***************************************************************************)
(* JSON.parse, for texts without white space made of null, strings, [],   *)
(* and objects whose members are strings or null.  Every other text of    *)
(* the input sets below is no JSON at all, and JSON.parse throws.         *)
(***************************************************************************)
Quote == "\""
NullText == <<"n", "u", "l", "l">>

\* property names of a parsed object, as the handlers read them
KeyName(chars) ==
    CASE chars = <<"s", "t", "r", "e", "e", "t">> -> "street"
      [] chars = <<"c", "i", "t", "y">> -> "city"
      [] chars = <<"s", "t", "a", "t", "e">> -> "state"
      [] chars = <<"z", "i", "p">> -> "zip"
      [] OTHER -> "other"

RECURSIVE ScanQuote(_, _)
ScanQuote(s, i) ==
    IF i > Len(s) THEN 0
    ELSE IF s[i] = Quote THEN i
    ELSE ScanQuote(s, i + 1)

Thrown == [ok |-> FALSE]

ParseStringAt(s, i) ==
    IF i > Len(s) \/ s[i] # Quote THEN Thrown
    ELSE LET j == ScanQuote(s, i + 1) IN
         IF j = 0 THEN Thrown
         ELSE [ok |-> TRUE, val |-> S(SubSeq(s, i + 1, j - 1)), next |-> j + 1]

ParseValueAt(s, i) ==
    IF i > Len(s) THEN Thrown
    ELSE IF s[i] = Quote THEN ParseStringAt(s, i)
    ELSE IF i + 3 <= Len(s) /\ SubSeq(s, i, i + 3) = NullText
         THEN [ok |-> TRUE, val |-> Null, next |-> i + 4]
    ELSE Thrown

RECURSIVE ParseMembers(_, _, _)
ParseMembers(s, i, acc) ==
    LET key == ParseStringAt(s, i) IN
    IF ~key.ok \/ key.next > Len(s) \/ s[key.next] # ":" THEN Thrown
    ELSE LET val == ParseValueAt(s, key.next + 1) IN
         IF ~val.ok \/ val.next > Len(s) THEN Thrown
         ELSE LET name == KeyName(key.val.s)
                  acc2 == [k \in (DOMAIN acc) \cup {name} |->
                              IF k = name THEN val.val ELSE acc[k]]
              IN IF s[val.next] = "," THEN ParseMembers(s, val.next + 1, acc2)
                 ELSE IF s[val.next] = "}" /\ val.next = Len(s)
                      THEN [ok |-> TRUE, val |-> Obj(acc2)]
                 ELSE Thrown

JSONParse(s) ==
    IF s = NullText THEN [ok |-> TRUE, val |-> Null]
    ELSE IF s = <<"[", "]">> THEN [ok |-> TRUE, val |-> Arr(<<>>)]
    ELSE IF s = <<"{", "}">> THEN [ok |-> TRUE, val |-> Obj(NoFields)]
    ELSE IF s # <<>> /\ s[1] = Quote
         THEN LET r == ParseStringAt(s, 1) IN
              IF r.ok /\ r.next = Len(s) + 1 THEN [ok |-> TRUE, val |-> r.val]
              ELSE Thrown
    ELSE IF s # <<>> /\ s[1] = "{" THEN ParseMembers(s, 2, NoFields)
    ELSE Thrown

sEmpty == <<>>
(***************************************************************************)
(* Number(v)                                                               *)
(***************************************************************************)
DigitValue(c) == (CHOOSE i \in DOMAIN Digits : Digits[i] = c) - 1
IsDigit(c) == \E i \in DOMAIN Digits : Digits[i] = c

RECURSIVE DigitsValue(_, _)
DigitsValue(s, acc) ==
    IF s = <<>> THEN acc ELSE DigitsValue(Tail(s), 10 * acc + DigitValue(Head(s)))

ToNumber(v) ==
    CASE v.t = "number" -> v
      [] v.t = "string" ->
            LET s == trim(v.s) IN
            IF s = <<>> THEN N(0)
            ELSE IF \A i \in DOMAIN s : IsDigit(s[i]) THEN N(DigitsValue(s, 0))
            ELSE NaN
      [] v.t = "boolean" -> IF v.b THEN N(1) ELSE N(0)
      [] v.t = "null" -> N(0)
      [] OTHER -> NaN

(***************************************************************************)
(* The documents of a collection                                           *)
(***************************************************************************)
NoDoc == [t |-> "nodoc"]
NoReq == [route |-> "none"]
NoResp == [status |-> 0, error |-> "", body |-> Undef]

Response(status, error, body) == [status |-> status, error |-> error, body |-> body]

HttpIdle == req = NoReq /\ resp = NoResp

\* a handler runs once on the request that arrived
Handling(route) == req # NoReq /\ req.route = route /\ resp = NoResp

\* the response is sent and the request ends
Reply ==
    /\ req # NoReq
    /\ resp # NoResp
    /\ req' = NoReq
    /\ resp' = NoResp

(***************************************************************************)
(* routes/questions.ts and models/Question.ts                              *)
(***************************************************************************)
MaxQuestions == 1
MaxTrans == 2

QuestionIds == 1..MaxQuestions

EnumLanguageIds == [GEORGIAN |-> 1, ENGLISH |-> 2, RUSSIAN |-> 3]
ALLOWED_LANGUAGE_IDS ==
    {EnumLanguageIds.GEORGIAN, EnumLanguageIds.ENGLISH, EnumLanguageIds.RUSSIAN}

toLangId(value) ==
    IF IsNullish(value) THEN Null
    ELSE LET n == ToNumber(value) IN
         IF IsNaN(n) THEN Null ELSE n

ERR_TranslationsRequired == "translations array is required and must not be empty"
ERR_NumericLanguageId == "Each translation must include a numeric languageId (1, 2 or 3)"
ERR_LanguageIdNotAllowed == "languageId must be one of: 1, 2, 3"
ERR_DuplicateLanguageId == "Duplicate languageId in translations is not allowed"
ERR_QuestionAndAnswer == "Each translation must have question and answer"
ERR_TranslationsMissing == "translations is required"
ERR_QuestionNotFound == "Question not found"
ERR_SchemaUnique == "Each language can only appear once in translations"

\* the loop without its duplicate check
RECURSIVE ValidateWithoutDuplicateCheck(_, _)
ValidateWithoutDuplicateCheck(list, seenLangs) ==
    IF list = <<>> THEN ""
    ELSE LET trans == Head(list)
             langId == toLangId(Get(trans, "languageId"))
         IN IF langId = Null THEN ERR_NumericLanguageId
            ELSE IF langId.n \notin ALLOWED_LANGUAGE_IDS THEN ERR_LanguageIdNotAllowed
            ELSE IF ~Truthy(Get(trans, "question")) \/ ~Truthy(Get(trans, "answer"))
                 THEN ERR_QuestionAndAnswer
            ELSE ValidateWithoutDuplicateCheck(Tail(list), seenLangs \cup {langId.n})

\* the loop with the text check moved before the duplicate check
RECURSIVE ValidateTextFirst(_, _)
ValidateTextFirst(list, seenLangs) ==
    IF list = <<>> THEN ""
    ELSE LET trans == Head(list)
             langId == toLangId(Get(trans, "languageId"))
         IN IF langId = Null THEN ERR_NumericLanguageId
            ELSE IF langId.n \notin ALLOWED_LANGUAGE_IDS THEN ERR_LanguageIdNotAllowed
            ELSE IF ~Truthy(Get(trans, "question")) \/ ~Truthy(Get(trans, "answer"))
                 THEN ERR_QuestionAndAnswer
            ELSE IF langId.n \in seenLangs THEN ERR_DuplicateLanguageId
            ELSE ValidateTextFirst(Tail(list), seenLangs \cup {langId.n})

\* for (const trans of body.translations) { ... }: the first error, or "" when the
\* loop ends
RECURSIVE ValidateTranslations(_, _)
ValidateTranslations(list, seenLangs) ==
    IF list = <<>> THEN ""
    ELSE LET trans == Head(list)
             langId == toLangId(Get(trans, "languageId"))
         IN IF langId = Null THEN ERR_NumericLanguageId
            ELSE IF langId.n \notin ALLOWED_LANGUAGE_IDS THEN ERR_LanguageIdNotAllowed
            ELSE IF langId.n \in seenLangs THEN ERR_DuplicateLanguageId
            ELSE IF ~Truthy(Get(trans, "question")) \/ ~Truthy(Get(trans, "answer"))
                 THEN ERR_QuestionAndAnswer
            ELSE ValidateTranslations(Tail(list), seenLangs \cup {langId.n})

\* body.translations.map(t => ({languageId: Number(t.languageId), question, answer}))
StoredTranslation(trans) ==
    [languageId |-> ToNumber(Get(trans, "languageId")).n,
     question |-> Get(trans, "question"),
     answer |-> Get(trans, "answer")]

\* QuestionSchema.translations.validate
QuestionSchemaValid(translations) ==
    Cardinality({translations[i].languageId : i \in DOMAIN translations})
        = Len(translations)

\* a lookup that never finds the language
FindIndexNone(translations, newLang) == 0

\* findIndex(t => Number(t.languageId) === newLang), 0 when there is none
FindIndex(translations, newLang) ==
    IF \E i \in DOMAIN translations : translations[i].languageId = newLang
    THEN CHOOSE i \in DOMAIN translations :
            /\ translations[i].languageId = newLang
            /\ \A j \in 1..(i - 1) : translations[j].languageId # newLang
    ELSE 0

\* an update that stores the list of the request in place of the stored one
ReplaceTranslations(translations, list) ==
    [i \in DOMAIN list |-> StoredTranslation(list[i])]

\* body.translations.forEach(newTrans => update or push)
RECURSIVE MergeTranslations(_, _)
MergeTranslations(translations, list) ==
    IF list = <<>> THEN translations
    ELSE LET newTrans == Head(list)
             newLang == ToNumber(Get(newTrans, "languageId")).n
             existingIndex == FindIndex(translations, newLang)
             merged ==
                IF existingIndex > 0
                THEN [translations EXCEPT ![existingIndex] =
                        [languageId |-> newLang,
                         question |-> IF IsNullish(Get(newTrans, "question"))
                                      THEN @.question ELSE Get(newTrans, "question"),
                         answer |-> IF IsNullish(Get(newTrans, "answer"))
                                    THEN @.answer ELSE Get(newTrans, "answer")]]
                ELSE Append(translations, StoredTranslation(newTrans))
         IN MergeTranslations(merged, Tail(list))

\* Boolean(body.active); body.active ?? true
ActiveOnCreate(body) ==
    IF IsNullish(Get(body, "active")) THEN TRUE ELSE Truthy(Get(body, "active"))

FreeQuestionIds == {i \in QuestionIds : questions[i] = NoDoc}

\* router.post('/questions')
PostQuestion(body) ==
    LET translations == Get(body, "translations") IN
    /\ UNCHANGED req
    /\ IF translations.t # "array" \/ translations.a = <<>>
       THEN /\ resp' = Response(400, ERR_TranslationsRequired, Undef)
            /\ UNCHANGED questions
       ELSE LET error == ValidateTranslations(translations.a, {})
                doc == [active |-> ActiveOnCreate(body),
                        categoryId |-> Get(body, "categoryId"),
                        translations |->
                            [i \in DOMAIN translations.a |->
                                StoredTranslation(translations.a[i])]]
                id == CHOOSE i \in FreeQuestionIds : \A j \in FreeQuestionIds : i <= j
            IN IF error # ""
               THEN /\ resp' = Response(400, error, Undef)
                    /\ UNCHANGED questions
               ELSE IF ~QuestionSchemaValid(doc.translations)
               THEN /\ resp' = Response(400, ERR_SchemaUnique, Undef)
                    /\ UNCHANGED questions
               ELSE /\ resp' = Response(201, "", Undef)
                    /\ questions' = [questions EXCEPT ![id] = doc]

\* router.patch('/questions/:id')
PatchQuestion(id, body) ==
    LET translations == Get(body, "translations")
        question == questions[id]
    IN
    /\ UNCHANGED req
    /\ IF question = NoDoc
       THEN /\ resp' = Response(404, ERR_QuestionNotFound, Undef)
            /\ UNCHANGED questions
       ELSE IF ~Truthy(translations)
       THEN /\ resp' = Response(404, ERR_TranslationsMissing, Undef)
            /\ UNCHANGED questions
       ELSE LET active == IF Get(body, "active") = Undef
                          THEN question.active ELSE Truthy(Get(body, "active"))
                error == IF translations.t = "array"
                         THEN ValidateTranslations(translations.a, {}) ELSE ""
                merged == IF translations.t = "array"
                          THEN MergeTranslations(question.translations, translations.a)
                          ELSE question.translations
            IN IF error # ""
               THEN /\ resp' = Response(400, error, Undef)
                    /\ UNCHANGED questions
               ELSE IF ~QuestionSchemaValid(merged)
               THEN /\ resp' = Response(400, ERR_SchemaUnique, Undef)
                    /\ UNCHANGED questions
               ELSE /\ resp' = Response(200, "", Undef)
                    /\ questions' = [questions EXCEPT ![id] =
                                        [@ EXCEPT !.active = active,
                                                  !.translations = merged]]

ERR_StatusBoolean == "status must be a boolean"

\* a handler that coerces the status of the body with Boolean()
StatusCoerced(active, rawBody) ==
    IF "status" \notin DOMAIN rawBody.o THEN B(~active)
    ELSE B(Truthy(rawBody.o.status))

\* the value router.post('/questions/change-status/:id') assigns to active:
\* the negation without a status key, the status when it is a boolean, and
\* none (undefined) otherwise
StatusToStore(active, rawBody) ==
    IF "status" \notin DOMAIN rawBody.o THEN B(~active)
    ELSE IF rawBody.o.status.t = "boolean" THEN rawBody.o.status
    ELSE Undef

\* router.post('/questions/change-status/:id')
ChangeStatus(id, rawBody) ==
    /\ UNCHANGED req
    /\ IF questions[id] = NoDoc
       THEN /\ resp' = Response(404, ERR_QuestionNotFound, Undef)
            /\ UNCHANGED questions
       ELSE \E status \in {StatusToStore(questions[id].active, rawBody)} :
            IF status = Undef
            THEN /\ resp' = Response(400, ERR_StatusBoolean, Undef)
                 /\ UNCHANGED questions
            ELSE /\ questions' = [questions EXCEPT ![id] = [@ EXCEPT !.active = status.b]]
                 /\ resp' = Response(200, "", Undef)

(***************************************************************************)
(* Request bodies of the questions routes                                  *)
(***************************************************************************)
sQ == <<"Q">>
sQ2 == <<"Q", "2">>
sAns == <<"A">>
sOne == <<"1">>
sX == <<"x">>

Translation(languageId, question, answer) ==
    Payload([languageId |-> languageId, question |-> question, answer |-> answer])

TranslationInputs ==
    {Translation(N(1), S(sQ), S(sAns)),
     Translation(S(sOne), S(sQ2), S(sAns)),
     Translation(N(2), S(sQ), S(sAns)),
     Translation(N(2), S(sQ), Undef),
     Translation(N(4), S(sEmpty), S(sAns)),
     Translation(S(sX), S(sQ), S(sAns)),
     Translation(Null, S(sEmpty), S(sAns))}

RECURSIVE SeqsUpTo(_, _)
SeqsUpTo(set, n) ==
    IF n = 0 THEN {<<>>}
    ELSE LET shorter == SeqsUpTo(set, n - 1) IN
         shorter \cup {Append(s, x) : s \in shorter, x \in set}

TranslationLists == SeqsUpTo(TranslationInputs, MaxTrans)

QuestionBodies ==
    {Payload([translations |-> Arr(l), active |-> a]) :
        l \in TranslationLists, a \in {Undef, B(FALSE)}}
    \cup {Payload([active |-> B(FALSE)]), Payload([translations |-> S(sX)])}

sTrue == <<"t", "r", "u", "e">>

\* requests of the status route, next to a few that create and patch
StatusRequests ==
    {[route |-> "POST /questions/change-status/:id", id |-> i, body |-> b] :
        i \in QuestionIds,
        b \in {Payload([status |-> v]) : v \in {Undef, B(TRUE), B(FALSE), S(sTrue), Null, N(0)}}}
    \cup {[route |-> "POST /questions", id |-> 0, body |-> b] :
            b \in {Payload([translations |-> Arr(<<Translation(N(1), S(sQ), S(sAns))>>),
                            categoryId |-> N(7)]),
                   Payload([translations |-> Arr(<<Translation(N(2), S(sQ), S(sAns)),
                                                   Translation(N(1), S(sQ2), S(sAns))>>),
                            active |-> B(FALSE)])}}
    \cup {[route |-> "PATCH /questions/:id", id |-> i, body |-> b] :
            i \in QuestionIds,
            b \in {Payload([translations |-> Arr(<<Translation(N(3), S(sQ), S(sAns))>>),
                            active |-> B(TRUE)])}}

QuestionsEmpty == questions = [i \in QuestionIds |-> NoDoc]

QuestionRequests ==
    {[route |-> "POST /questions", id |-> 0, body |-> b] : b \in QuestionBodies}
    \cup {[route |-> "PATCH /questions/:id", id |-> i, body |-> b] :
            i \in QuestionIds, b \in QuestionBodies}

(***************************************************************************)
(* routes/flats.ts: parseAddress                                           *)
(***************************************************************************)
norm(v) == IF IsString(v) THEN S(trim(v.s)) ELSE v

\* the nested address taken only when it is already an object
NestedAddressObjectOnly(body) ==
    LET a == Get(body, "address") IN
    IF ~IsNullish(a) /\ ~IsString(a) /\ TypeofObject(a) THEN a ELSE Undef

\* the legacy location taken whatever the earlier shapes gave
LegacyAddressFirst(body, address) ==
    IF Truthy(Get(body, "location"))
    THEN Obj([street |-> S(ToStr(Get(body, "location")))])
    ELSE address

\* Prefer nested address
NestedAddress(body) ==
    LET a == Get(body, "address") IN
    IF IsNullish(a) THEN Undef
    ELSE IF IsString(a)
         THEN LET parsed == JSONParse(a.s) IN
              IF parsed.ok /\ Truthy(parsed.val) /\ TypeofObject(parsed.val)
              THEN parsed.val
              ELSE Undef
    ELSE IF TypeofObject(a) THEN a
    ELSE Undef

\* Fallback to flat fields
FlatFieldsAddress(body, address) ==
    IF Truthy(address) THEN address
    ELSE LET street == Coalesce(Get(body, "street"), Get(body, "address_street"),
                                Get(body, "addr_street"))
             city == Coalesce(Get(body, "city"), Get(body, "address_city"),
                              Get(body, "addr_city"))
             state == Coalesce(Get(body, "state"), Get(body, "address_state"),
                               Get(body, "addr_state"))
             zip == Coalesce(Get(body, "zip"), Get(body, "address_zip"),
                             Get(body, "addr_zip"))
         IN IF Truthy(street) \/ Truthy(city) \/ Truthy(state) \/ Truthy(zip)
            THEN Obj([street |-> street, city |-> city, state |-> state, zip |-> zip])
            ELSE address

\* Legacy: map location -> address.street
LegacyAddress(body, address) ==
    IF ~Truthy(address) /\ Truthy(Get(body, "location"))
    THEN Obj([street |-> S(ToStr(Get(body, "location")))])
    ELSE address

parseAddress(body) ==
    LET address == LegacyAddress(body, FlatFieldsAddress(body, NestedAddress(body))) IN
    IF Truthy(address)
    THEN Obj([street |-> norm(Get(address, "street")),
              city |-> norm(Get(address, "city")),
              state |-> norm(Get(address, "state")),
              zip |-> norm(Get(address, "zip"))])
    ELSE address

(***************************************************************************)
(* Request payloads for parseAddress                                       *)
(***************************************************************************)
sA == <<"A">>
sPadA == <<" ", "A", " ">>
sB == <<"B">>
sC == <<"C">>
\* {"street":"A"}
jsonStreetA ==
    <<"{", Quote, "s", "t", "r", "e", "e", "t", Quote, ":", Quote, "A", Quote, "}">>
\* {"city":"C","street":" A "}
jsonCityStreet ==
    <<"{", Quote, "c", "i", "t", "y", Quote, ":", Quote, "C", Quote, ",",
      Quote, "s", "t", "r", "e", "e", "t", Quote, ":", Quote, " ", "A", " ", Quote, "}">>
jsonEmptyObject == <<"{", "}">>
\* "A"
jsonString == <<Quote, "A", Quote>>
\* {street:A}   (no JSON: JSON.parse throws)
notJson == <<"{", "s", "t", "r", "e", "e", "t", ":", "A", "}">>
\* Main   (no JSON: JSON.parse throws)
plainText == <<"M", "a", "i", "n">>


AddressInputs ==
    {Undef, Null, S(jsonStreetA), S(jsonCityStreet), S(jsonEmptyObject), S(NullText),
     S(jsonString), S(notJson), S(plainText), S(sEmpty), N(5),
     Obj(NoFields), Obj([street |-> S(sPadA)]), Obj([city |-> S(sC)]), Arr(<<>>)}
StreetInputs == {Undef, S(sA), S(sPadA), S(sEmpty)}
AliasInputs == {Undef, S(sB)}
CityInputs == {Undef, S(sC), N(0)}
ZipAliasInputs == {Undef, S(sC)}
LocationInputs == {Undef, S(sA), S(sEmpty), N(5)}

AddrBodies ==
    {Payload([address |-> a, street |-> st, address_street |-> al, city |-> c,
              addr_zip |-> z, location |-> l]) :
        a \in AddressInputs, st \in StreetInputs, al \in AliasInputs,
        c \in CityInputs, z \in ZipAliasInputs, l \in LocationInputs}
    \cup {Undef}

(***************************************************************************)
(* models/Flats.ts and routes/flats.ts                                     *)
(***************************************************************************)
MaxFlats == 2
MaxImageIds == 3

FlatIds == 1..MaxFlats

sGEL == <<"G", "E", "L">>
sUSD == <<"U", "S", "D">>
sEUR == <<"E", "U", "R">>
sLowerUsd == <<"u", "s", "d">>
sPadUsd == <<" ", "u", "s", "d", " ">>
sBTC == <<"B", "T", "C">>

allowedCurrencies == {sGEL, sUSD, sEUR}

ERR_FlatRequired == "square, address.street, and price are required"
ERR_StreetRequired == "address.street is required"
ERR_ImageRequired == "image file is required (multipart/form-data, field name \"image\")"
ERR_InvalidCurrency == "Invalid currency. Allowed: GEL, USD, EUR"
ERR_FlatNotFound == "Flat not found"
ERR_ImageNotFound == "Image not found"
ERR_FlatValidation == "Flat validation failed"
ERR_UpdateConflict == "Updating the path 'address.street' would create a conflict at 'address'"

\* AddressSchema: street is a required string
AddressSchemaValid(address) ==
    /\ address.t = "object"
    /\ IsString(Get(address, "street"))
    /\ Get(address, "street").s # <<>>

\* the image sub-schema: url, filename, size and contentType are required,
\* storage is one of the enum
ImageSchemaValid(image) ==
    /\ Truthy(image.filename)
    /\ image.storage \in {"local", "firebase", "cloudinary"}

\* FlatSchema, as document validation applies it on create() and save()
FlatSchemaValid(doc) ==
    /\ IsNumber(doc.square) /\ ~IsNaN(doc.square)
    /\ IsNumber(doc.price) /\ ~IsNaN(doc.price)
    /\ IsString(doc.currency) /\ doc.currency.s \in {sGEL, sUSD, sEUR}
    /\ AddressSchemaValid(doc.address)
    /\ \A i \in DOMAIN doc.images : ImageSchemaValid(doc.images[i])

\* currency: { default: "GEL" }
CurrencyOrDefault(currency) == IF currency = Undef THEN S(sGEL) ELSE currency

\* req.file in router.post('/flats'): the route installs no upload middleware,
\* so nothing sets req.file, whatever the client attached
PostFlatsFile(upload) == Undef

FreeFlatIds == {i \in FlatIds : flats[i] = NoDoc}

\* router.post('/flats')
PostFlat(body, upload) ==
    \E address \in {parseAddress(body)}, file \in {PostFlatsFile(upload)} :
    LET square == Get(body, "square")
        price == Get(body, "price")
        currency == Get(body, "currency")
        hasCurrency == IsString(currency) /\ trim(currency.s) # <<>>
        normalizedCurrency ==
            IF hasCurrency THEN S(toUpperCase(trim(currency.s))) ELSE Undef
        imageDoc == [id |-> nextImageId, storage |-> "local",
                     filename |-> Get(file, "filename"), cloudinaryPublicId |-> Undef]
        doc == [square |-> ToNumber(square), price |-> ToNumber(price),
                currency |-> CurrencyOrDefault(normalizedCurrency),
                address |-> address, images |-> <<imageDoc>>, version |-> 0]
        id == CHOOSE i \in FreeFlatIds : \A j \in FreeFlatIds : i <= j
    IN
    /\ UNCHANGED <<req, cleanup>>
    /\ IF IsNullish(square) \/ IsNullish(price) \/ ~Truthy(address)
       THEN /\ resp' = Response(400, ERR_FlatRequired, Undef)
            /\ UNCHANGED <<flats, nextImageId>>
       ELSE IF ~Truthy(Get(address, "street"))
       THEN /\ resp' = Response(400, ERR_StreetRequired, Undef)
            /\ UNCHANGED <<flats, nextImageId>>
       ELSE IF ~Truthy(file)
       THEN /\ resp' = Response(400, ERR_ImageRequired, Undef)
            /\ UNCHANGED <<flats, nextImageId>>
       ELSE IF hasCurrency /\ normalizedCurrency.s \notin allowedCurrencies
       THEN /\ resp' = Response(400, ERR_InvalidCurrency, Undef)
            /\ UNCHANGED <<flats, nextImageId>>
       ELSE \E created \in {doc} :
            IF ~FlatSchemaValid(created)
            THEN /\ resp' = Response(400, ERR_FlatValidation, Undef)
                 /\ UNCHANGED <<flats, nextImageId>>
            ELSE /\ resp' = Response(201, "", created)
                 /\ flats' = [flats EXCEPT ![id] = created]
                 /\ nextImageId' = nextImageId + 1

\* the update document of router.patch('/flats/:id'): the paths it sets and
\* whether it unsets address
FlatUpdate(body) ==
    LET square == Get(body, "square")
        price == Get(body, "price")
        currency == Get(body, "currency")
        address == parseAddress(body)
        top == [square |-> IF IsNullish(square) THEN Undef ELSE square,
                price |-> IF IsNullish(price) THEN Undef ELSE price,
                currency |-> IF IsNullish(currency) THEN Undef
                             ELSE S(toUpperCase(ToStr(currency)))]
        sub == IF Truthy(address)
               THEN [f \in {"street", "city", "state", "zip"} |->
                        IF IsNullish(Get(address, f)) THEN Undef ELSE Get(address, f)]
               ELSE [f \in {"street", "city", "state", "zip"} |-> Undef]
    IN [top |-> top, address |-> sub,
        unsetAddress |-> Get(body, "address") = Null
                         \/ Get(body, "address") = S(NullText)]

\* the store refuses an update that sets a path below one it unsets
UpdateConflicts(update) ==
    update.unsetAddress /\ \E f \in DOMAIN update.address : update.address[f] # Undef

\* Flat.findByIdAndUpdate(id, update, {new: true}): the paths are cast to their
\* schema types and written; no validator runs
ApplyFlatUpdate(doc, update) ==
    LET setsAddress == \E f \in DOMAIN update.address : update.address[f] # Undef
        oldFields == IF doc.address.t = "object" THEN doc.address.o ELSE NoFields
        newAddress ==
            IF update.unsetAddress THEN Undef
            ELSE IF setsAddress
            THEN Obj([f \in (DOMAIN oldFields) \cup
                            {g \in DOMAIN update.address : update.address[g] # Undef} |->
                        IF update.address[f] # Undef THEN S(ToStr(update.address[f]))
                        ELSE oldFields[f]])
            ELSE doc.address
    IN [doc EXCEPT
          !.square = IF update.top.square = Undef THEN @ ELSE ToNumber(update.top.square),
          !.price = IF update.top.price = Undef THEN @ ELSE ToNumber(update.top.price),
          !.currency = IF update.top.currency = Undef THEN @ ELSE update.top.currency,
          !.address = newAddress]

\* router.patch('/flats/:id')
PatchFlat(id, body) ==
    \E currency \in {Get(body, "currency")}, update \in {FlatUpdate(body)} :
    /\ UNCHANGED <<req, nextImageId, cleanup>>
    /\ IF Truthy(currency) /\ toUpperCase(ToStr(currency)) \notin allowedCurrencies
       THEN /\ resp' = Response(400, ERR_InvalidCurrency, Undef)
            /\ UNCHANGED flats
       ELSE IF UpdateConflicts(update)
       THEN /\ resp' = Response(400, ERR_UpdateConflict, Undef)
            /\ UNCHANGED flats
       ELSE IF flats[id] = NoDoc
       THEN /\ resp' = Response(404, ERR_FlatNotFound, Undef)
            /\ UNCHANGED flats
       ELSE /\ flats' = [flats EXCEPT ![id] = ApplyFlatUpdate(@, update)]
            /\ resp' = Response(200, "", flats'[id])

\* images.findIndex(img => String(img._id) === String(imageId)), 0 when none
ImageIndex(images, imageId) ==
    IF \E i \in DOMAIN images : images[i].id = imageId
    THEN CHOOSE i \in DOMAIN images :
            /\ images[i].id = imageId
            /\ \A j \in 1..(i - 1) : images[j].id # imageId
    ELSE 0

\* images.splice(idx, 1)
Splice(images, idx) ==
    [i \in 1..(Len(images) - 1) |-> IF i < idx THEN images[i] ELSE images[i + 1]]

\* a deletion of stored bytes that was started and has not settled yet
CleanupCall(call, image) == [call |-> call, image |-> image, outcome |-> "pending"]

\* a removal that starts both deletions whatever the tag of the record
CleanupCallsBoth(removed) ==
    {CleanupCall("cloudinary.uploader.destroy", removed.id),
     CleanupCall("fs.promises.unlink", removed.id)}

\* the deletions of stored bytes that the removal of an image starts
CleanupCalls(removed) ==
    (IF removed.storage = "cloudinary" /\ Truthy(removed.cloudinaryPublicId)
     THEN {CleanupCall("cloudinary.uploader.destroy", removed.id)} ELSE {})
    \cup
    (IF removed.storage = "local" /\ Truthy(removed.filename)
     THEN {CleanupCall("fs.promises.unlink", removed.id)} ELSE {})

\* a deletion whose failure reaches the handler's catch
CleanupSettlesAwaited ==
    /\ \E c \in {x \in cleanup : x.outcome = "pending"}, outcome \in {"done", "failed"} :
          /\ cleanup' = (cleanup \ {c}) \cup {[c EXCEPT !.outcome = outcome]}
          /\ resp' = IF outcome = "failed" /\ resp # NoResp
                     THEN Response(400, c.call, Undef) ELSE resp
    /\ UNCHANGED <<req, flats, nextImageId>>

\* a started deletion succeeds or fails; .catch(() => void 0) drops the failure
CleanupSettles ==
    /\ \E c \in {x \in cleanup : x.outcome = "pending"}, outcome \in {"done", "failed"} :
          cleanup' = (cleanup \ {c}) \cup {[c EXCEPT !.outcome = outcome]}
    /\ UNCHANGED <<req, resp, flats, nextImageId>>

\* router.delete('/flats/:id/images/:imageId')
DeleteFlatImage(id, imageId) ==
    LET flat == flats[id]
        idx == ImageIndex(flat.images, imageId)
        saved == [flat EXCEPT !.images = Splice(flat.images, idx),
                              !.version = @ + 1]
    IN
    /\ UNCHANGED <<req, nextImageId>>
    /\ IF flat = NoDoc
       THEN /\ resp' = Response(404, ERR_FlatNotFound, Undef)
            /\ UNCHANGED <<flats, cleanup>>
       ELSE IF idx = 0
       THEN /\ resp' = Response(404, ERR_ImageNotFound, Undef)
            /\ UNCHANGED <<flats, cleanup>>
       ELSE IF ~FlatSchemaValid(saved)
       THEN /\ resp' = Response(400, ERR_FlatValidation, Undef)
            /\ UNCHANGED <<flats, cleanup>>
       ELSE /\ flats' = [flats EXCEPT ![id] = saved]
            /\ cleanup' = cleanup \cup CleanupCalls(flat.images[idx])
            /\ resp' = Response(200, "", saved)

\* the documents Flat.find(filter) returns for the currency of the query
FlatsByCurrency(currency) ==
    {flats[i] : i \in {j \in FlatIds :
        /\ flats[j] # NoDoc
        /\ \/ ~Truthy(currency)
           \/ flats[j].currency = currency
           \/ currency = S(sGEL) /\ flats[j].currency = Undef}}

\* q.currency?.trim().toUpperCase()
QueryCurrency(query) ==
    IF IsString(Get(query, "currency"))
    THEN S(toUpperCase(trim(Get(query, "currency").s)))
    ELSE Undef

\* router.get('/flats')
GetFlats(query) ==
    \E currency \in {QueryCurrency(query)} :
    /\ UNCHANGED <<req, flats, nextImageId, cleanup>>
    /\ IF Truthy(currency) /\ currency.s \notin allowedCurrencies
       THEN resp' = Response(400, ERR_InvalidCurrency, Undef)
       ELSE resp' = Response(200, "",
                             [flats |-> FlatsByCurrency(currency),
                              flatsCount |-> Cardinality(FlatsByCurrency(currency)),
                              total |-> Cardinality(FlatsByCurrency(currency))])

(***************************************************************************)
(* Requests of the flats routes                                            *)
(***************************************************************************)
sFileName == <<"a", ".", "p", "n", "g">>
ImageFile == Obj([filename |-> S(sFileName)])

CurrencyInputs ==
    {Undef, Null, S(sEmpty), S(sLowerUsd), S(sPadUsd), S(sBTC)}

PostFlatBodies ==
    {Payload([square |-> sq, price |-> N(1000), currency |-> c, address |-> a,
              street |-> st]) :
        sq \in {Undef, N(50)}, c \in {Undef, S(sLowerUsd), S(sBTC)},
        a \in {Undef, S(jsonStreetA)}, st \in {Undef, S(sPadA)}}

PatchFlatBodies ==
    {Payload([currency |-> c]) : c \in CurrencyInputs}
    \cup {Payload([address |-> a, street |-> st]) :
            a \in {Null, S(NullText)}, st \in {Undef, S(sB)}}
    \cup {Payload([street |-> st, city |-> ci]) :
            st \in {Undef, S(sB)}, ci \in {Undef, S(sC)}}
    \cup {Payload([square |-> N(60), price |-> N(2000)])}

FlatRequests ==
    {[route |-> "POST /flats", id |-> 0, body |-> b, upload |-> u] :
        b \in PostFlatBodies, u \in {Undef, ImageFile}}
    \cup {[route |-> "PATCH /flats/:id", id |-> i, body |-> b] :
            i \in FlatIds, b \in PatchFlatBodies}
    \cup {[route |-> "DELETE /flats/:id/images/:imageId", id |-> i, imageId |-> k] :
            i \in FlatIds, k \in 1..MaxImageIds}
    \cup {[route |-> "GET /flats", query |-> Payload([currency |-> c])] :
            c \in {Undef, S(sEmpty), S(sLowerUsd), S(sPadUsd), S(sBTC)}}

\* a listing stored by an earlier deployment: one local image
SeedFlat ==
    [square |-> N(50), price |-> N(1000), currency |-> S(sGEL),
     address |-> Obj([street |-> S(sA)]),
     images |-> <<[id |-> 1, storage |-> "local", filename |-> S(sFileName),
                   cloudinaryPublicId |-> Undef]>>,
     version |-> 0]

FlatsSeeded ==
    /\ flats = [i \in FlatIds |-> IF i = 1 THEN SeedFlat ELSE NoDoc]
    /\ nextImageId = 2
    /\ cleanup = {}


(***************************************************************************)
(* routes/flats.ts: POST /flats/:id/images                                 *)
(***************************************************************************)
\* two requests of the route at a time
UploadSlots == {"first", "second"}

ERR_NoImages == "No images uploaded. Use form-data with field name \"images\"."
ERR_UploadFailed == "cloudinary upload failed"
ERR_VersionError == "No matching document found for id and version"

\* a request of the route: where its handler stands, the flat id and the files
\* of the request, the document it loaded, and its response
IdleUpload ==
    [pc |-> "idle", id |-> 0, files |-> <<>>, flat |-> NoDoc, newImages |-> <<>>,
     failed |-> {}, status |-> 0, error |-> "", images |-> <<>>]

UploadsIdle == uploads = [s \in UploadSlots |-> IdleUpload]

UploadAnswer(slot, status, error) ==
    [slot EXCEPT !.pc = "done", !.status = status, !.error = error]

\* the image ids that requests in flight may still need
IdsInFlight ==
    LET RECURSIVE Sum(_)
        Sum(slots) == IF slots = {} THEN 0
                      ELSE LET s == CHOOSE x \in slots : TRUE
                           IN Len(uploads[s].files) + Sum(slots \ {s})
    IN Sum({s \in UploadSlots : uploads[s].pc \in {"uploading", "save"}})

\* upload.array('images', 10) has parsed the files of the request; then
\* const flat = await Flat.findById(id) and the check of req.files
UploadFind(s, id, files) ==
    /\ uploads[s].pc = "idle"
    /\ nextImageId - 1 + IdsInFlight + Len(files) <= MaxImageIds
    /\ uploads' = [uploads EXCEPT ![s] =
          IF flats[id] = NoDoc
          THEN [UploadAnswer(@, 404, ERR_FlatNotFound) EXCEPT !.id = id, !.files = files]
          ELSE IF files = <<>>
          THEN [UploadAnswer(@, 400, ERR_NoImages) EXCEPT !.id = id, !.files = files]
          ELSE [@ EXCEPT !.pc = "uploading", !.id = id, !.files = files,
                         !.flat = flats[id]]]
    /\ UNCHANGED <<flats, nextImageId, cleanup>>

\* results.map(({up, file}) => ({..., storage: 'cloudinary', ...}))
NewImage(file) ==
    [id |-> 0, storage |-> "cloudinary", filename |-> file.name,
     cloudinaryPublicId |-> file.name]

\* a join that goes on with the uploads that succeeded
SucceededOnly(files, failed) ==
    LET RECURSIVE Keep(_)
        Keep(i) == IF i > Len(files) THEN <<>>
                   ELSE (IF i \in failed THEN <<>> ELSE <<NewImage(files[i])>>)
                        \o Keep(i + 1)
    IN [ok |-> TRUE, newImages |-> Keep(1)]

\* await Promise.all(files.map(...)): rejects when one of the uploads failed
PromiseAllUploads(files, failed) ==
    IF failed # {} THEN [ok |-> FALSE, newImages |-> <<>>]
    ELSE [ok |-> TRUE, newImages |-> [i \in DOMAIN files |-> NewImage(files[i])]]

\* the uploads settle, the ones of `failed` with an error
UploadSettle(s, failed) ==
    /\ uploads[s].pc = "uploading"
    /\ failed \subseteq DOMAIN uploads[s].files
    /\ \E joined \in {PromiseAllUploads(uploads[s].files, failed)} :
          uploads' = [uploads EXCEPT ![s] =
              IF ~joined.ok
              THEN [UploadAnswer(@, 400, ERR_UploadFailed) EXCEPT !.failed = failed]
              ELSE IF joined.newImages = <<>>
              THEN [UploadAnswer(@, 400, ERR_NoImages) EXCEPT !.failed = failed]
              ELSE [@ EXCEPT !.pc = "save", !.newImages = joined.newImages,
                             !.failed = failed]]
    /\ UNCHANGED <<flats, nextImageId, cleanup>>

\* the sub-documents get their _id when they are set on the document
WithIds(images, first) == [i \in DOMAIN images |-> [images[i] EXCEPT !.id = first + i - 1]]

\* an assignment that keeps the new images only
ReplacedImages(old, new) == new

\* flat.images = [...(flat.images || []), ...newImages]
AppendedImages(old, new) == old \o new

\* await flat.save(): images is set as a whole array, which the store accepts
\* only for the version of the document that was loaded
UploadSave(s) ==
    /\ uploads[s].pc = "save"
    /\ \E images \in {AppendedImages(uploads[s].flat.images,
                                     WithIds(uploads[s].newImages, nextImageId))} :
       IF ~FlatSchemaValid([uploads[s].flat EXCEPT !.images = images])
       THEN /\ uploads' = [uploads EXCEPT ![s] = UploadAnswer(@, 400, ERR_FlatValidation)]
            /\ UNCHANGED <<flats, nextImageId>>
       ELSE IF flats[uploads[s].id] = NoDoc
               \/ flats[uploads[s].id].version # uploads[s].flat.version
       THEN /\ uploads' = [uploads EXCEPT ![s] = UploadAnswer(@, 400, ERR_VersionError)]
            /\ UNCHANGED <<flats, nextImageId>>
       ELSE /\ flats' = [flats EXCEPT ![uploads[s].id] =
                            [@ EXCEPT !.images = images, !.version = @ + 1]]
            /\ nextImageId' = nextImageId + Len(uploads[s].newImages)
            /\ uploads' = [uploads EXCEPT ![s] =
                              [UploadAnswer(@, 201, "") EXCEPT !.images = images]]
    /\ UNCHANGED cleanup

\* the response is sent
UploadReply(s) ==
    /\ uploads[s].pc = "done"
    /\ uploads' = [uploads EXCEPT ![s] = IdleUpload]
    /\ UNCHANGED <<flats, nextImageId, cleanup>>

sFile1 == <<"x", ".", "p", "n", "g">>
sFile2 == <<"y", ".", "p", "n", "g">>
UploadBatches ==
    {<<>>, <<[name |-> S(sFile1)]>>, <<[name |-> S(sFile1)], [name |-> S(sFile2)]>>}

ImageRequests ==
    {[route |-> "DELETE /flats/:id/images/:imageId", id |-> i, imageId |-> k] :
        i \in FlatIds, k \in 1..MaxImageIds}

(***************************************************************************)
(* models/User.ts                                                          *)
(***************************************************************************)
MaxUsers == 2
UserIds == 1..MaxUsers

UserPaths ==
    {"age", "email", "firstName", "lastName", "birthDate", "address",
     "password", "flats"}

CastError == [t |-> "CastError"]
InvalidDate == [t |-> "date", invalid |-> TRUE]

\* new Date(text): a run of digits is read as a year, anything else is invalid
DateFromText(chars) ==
    IF chars # <<>> /\ \A i \in DOMAIN chars : IsDigit(chars[i])
    THEN [t |-> "date", year |-> DigitsValue(chars, 0)]
    ELSE InvalidDate

\* new Date(new Date().getFullYear() - age, 0, 1)
DateYearsAgo(age) == [t |-> "date", yearsAgo |-> age]

\* new Date(value)
NewDate(v) ==
    CASE v.t = "date" -> v
      [] v.t = "string" -> DateFromText(v.s)
      [] OTHER -> InvalidDate

\* a character the class [^@\s] accepts
NotAtOrSpace(c) == c # "@" /\ ~IsSpace(c)

\* /[^@\s]+@[^@\s]+\.[^@\s]+/ finds a match somewhere in s
MatchesEmail(s) ==
    \E i \in DOMAIN s, j \in DOMAIN s :
        /\ 1 < i /\ i + 1 < j /\ j < Len(s)
        /\ NotAtOrSpace(s[i - 1])
        /\ s[i] = "@"
        /\ \A k \in (i + 1)..(j - 1) : NotAtOrSpace(s[k])
        /\ s[j] = "."
        /\ NotAtOrSpace(s[j + 1])

\* the schema type casts a value set on a path, and applies the path's
\* trim and lowercase setters
CastString(v) ==
    CASE v.t = "string" -> v
      [] v.t = "number" /\ ~IsNaN(v) /\ v.n \in 0..9 -> S(ToStr(v))
      [] IsNullish(v) -> v
      [] OTHER -> CastError

CastNumber(v) ==
    CASE v.t = "number" -> IF IsNaN(v) THEN CastError ELSE v
      [] v.t = "string" ->
            IF trim(v.s) = <<>> THEN Null
            ELSE IF IsNaN(ToNumber(v)) THEN CastError ELSE ToNumber(v)
      [] IsNullish(v) -> v
      [] OTHER -> CastError

CastDate(v) ==
    IF IsNullish(v) THEN v
    ELSE IF NewDate(v) = InvalidDate THEN CastError ELSE NewDate(v)

Trimmed(v) == IF IsString(v) THEN S(trim(v.s)) ELSE v
Lowered(v) == IF IsString(v) THEN S(toLowerCase(v.s)) ELSE v

CastUserPath(path, v) ==
    CASE path = "age" -> CastNumber(v)
      [] path = "email" -> Trimmed(Lowered(CastString(v)))
      [] path \in {"firstName", "lastName", "address"} -> Trimmed(CastString(v))
      [] path = "password" -> CastString(v)
      [] path = "birthDate" -> CastDate(v)
      [] path = "flats" ->
            IF v.t = "array" /\ \A i \in DOMAIN v.a : IsNumber(v.a[i])
            THEN [i \in DOMAIN v.a |-> v.a[i].n]
            ELSE <<>>

\* the validators of UserSchema on one path
UserPathValid(path, v) ==
    CASE path = "age" -> IsNumber(v) /\ ~IsNaN(v) /\ v.n >= 0 /\ v.n <= 150
      [] path = "email" -> IsString(v) /\ v.s # <<>> /\ MatchesEmail(v.s)
      [] path \in {"firstName", "lastName", "address"} -> IsString(v) /\ v.s # <<>>
      [] path = "password" -> IsString(v) /\ Len(v.s) >= 6
      [] path = "birthDate" -> v.t = "date"

ValidatedPaths == UserPaths \ {"flats"}

sHashPrefix == <<"$", "2", "a", "$">>
\* bcrypt.hash(password, saltRounds)
bcryptHash(chars) == sHashPrefix \o chars
\* bcrypt.compare(password, hash)
bcryptCompare(chars, hash) == hash = bcryptHash(chars)

\* toJSON / toObject: the transform deletes password
Sanitized(doc) == [k \in (DOMAIN doc) \ {"password"} |-> doc[k]]
\* .select('-password')
WithoutPassword(doc) == [k \in (DOMAIN doc) \ {"password"} |-> doc[k]]

FreeUserIds == {i \in UserIds : users[i] = NoDoc}
\* User.findOne({email})
UsersWithEmail(email) == {i \in UserIds : users[i] # NoDoc /\ users[i].email = email}

(***************************************************************************)
(* routes/auth.ts: POST /auth/register                                     *)
(***************************************************************************)
ERR_EmailRequired == "email is required"
ERR_AddressRequired == "address is required"
ERR_AgeRequired == "age is required"
ERR_FirstNameRequired == "firstName is required"
ERR_LastNameRequired == "lastName is required"
ERR_PasswordRequired == "password is required and must be at least 6 characters"
ERR_EmailInvalid == "email is invalid"
ERR_AgeRange == "age must be a number between 0 and 150"
ERR_EmailRegistered == "Email already registered"
ERR_UserValidation == "User validation failed"

\* errors.push(message) when the condition holds
PushIf(condition, message) == IF condition THEN <<message>> ELSE <<>>

\* const email = rawEmail ? String(rawEmail).toLowerCase().trim() : ''
RegisterEmail(body) ==
    IF Truthy(Get(body, "email"))
    THEN trim(toLowerCase(ToStr(Get(body, "email"))))
    ELSE <<>>

\* const age = rawAge !== undefined ? Number(rawAge) : NaN
RegisterAge(body) ==
    IF Get(body, "age") # Undef THEN ToNumber(Get(body, "age")) ELSE NaN

\* String(name).trim() === '' for a name that is neither undefined nor null
BlankName(v) == IsNullish(v) \/ trim(ToStr(v)) = <<>>

\* the presence checks, in the order of the code
RequiredErrors(body) ==
    PushIf(~Truthy(Get(body, "email")) \/ ~IsString(Get(body, "email")),
           ERR_EmailRequired)
    \o PushIf(~Truthy(Get(body, "address")) \/ ~IsString(Get(body, "address")),
              ERR_AddressRequired)
    \o PushIf(IsNullish(Get(body, "age")), ERR_AgeRequired)
    \o PushIf(BlankName(Get(body, "firstName")), ERR_FirstNameRequired)
    \o PushIf(BlankName(Get(body, "lastName")), ERR_LastNameRequired)
    \o PushIf(\/ ~Truthy(Get(body, "password"))
              \/ ~IsString(Get(body, "password"))
              \/ Len(Get(body, "password").s) < 6,
              ERR_PasswordRequired)

\* the checks on the normalized email and the converted age
ShapeErrors(body) ==
    PushIf(~MatchesEmail(RegisterEmail(body)), ERR_EmailInvalid)
    \o PushIf(\E age \in {RegisterAge(body)} :
                 IsNaN(age) \/ age.n < 0 \/ age.n > 150,
              ERR_AgeRange)

\* a validator that reports the shape of the fields only once all are present
RegisterErrorsStaged(body) ==
    IF RequiredErrors(body) # <<>> THEN RequiredErrors(body) ELSE ShapeErrors(body)

\* the errors list of the handler
RegisterErrors(body) == RequiredErrors(body) \o ShapeErrors(body)

\* birthDate || new Date(new Date().getFullYear() - Math.floor(age), 0, 1)
ComputedBirthDate(body) ==
    IF Truthy(Get(body, "birthDate"))
    THEN NewDate(Get(body, "birthDate"))
    ELSE DateYearsAgo(RegisterAge(body).n)

\* new User({...}): each path is cast as it is set; the ages of the model are
\* whole numbers, which Math.floor returns as they are
NewUser(body) ==
    [email |-> CastUserPath("email", S(RegisterEmail(body))),
     address |-> CastUserPath("address", S(trim(ToStr(Get(body, "address"))))),
     age |-> CastUserPath("age", RegisterAge(body)),
     firstName |-> CastUserPath("firstName", S(trim(ToStr(Get(body, "firstName"))))),
     lastName |-> CastUserPath("lastName", S(trim(ToStr(Get(body, "lastName"))))),
     password |-> CastUserPath("password", Get(body, "password")),
     birthDate |-> CastUserPath("birthDate", ComputedBirthDate(body)),
     flats |-> <<>>]

\* document validation of the paths in question
UserPathsValid(doc, paths) ==
    \A p \in paths : doc[p] # CastError /\ UserPathValid(p, doc[p])

\* the pre('save') hook: the password is hashed when it was modified
HashedPassword(doc) == [doc EXCEPT !.password = S(bcryptHash(@.s))]

\* router.post('/auth/register')
PostRegister(body) ==
    \E errors \in {RegisterErrors(body)} :
    /\ UNCHANGED <<req, held>>
    /\ IF errors # <<>>
       THEN /\ resp' = Response(400, "", [errors |-> errors])
            /\ UNCHANGED users
       ELSE IF UsersWithEmail(S(RegisterEmail(body))) # {}
       THEN /\ resp' = Response(409, ERR_EmailRegistered, Undef)
            /\ UNCHANGED users
       ELSE \E user \in {NewUser(body)} :
            IF ~UserPathsValid(user, ValidatedPaths)
            THEN /\ resp' = Response(500, ERR_UserValidation, Undef)
                 /\ UNCHANGED users
            ELSE \E id \in FreeUserIds :
                 /\ \A j \in FreeUserIds : id <= j
                 /\ users' = [users EXCEPT ![id] = HashedPassword(user)]
                 /\ resp' = Response(201, "", Sanitized(users'[id]))

(***************************************************************************)
(* services/jwt.ts and middleware/auth.ts                                  *)
(***************************************************************************)
NoTokens == [t |-> "none"]

\* doc.path of a loaded document: a path that was not selected reads undefined
Field(doc, path) == IF path \in DOMAIN doc THEN doc[path] ELSE Undef

\* const userForToken: IUserForToken = {...}
UserForToken(id, user) ==
    [id |-> S(ToStr(N(id))),
     password |-> Field(user, "password"),
     age |-> Field(user, "age"),
     address |-> Field(user, "address"),
     email |-> Field(user, "email"),
     firstName |-> Field(user, "firstName"),
     lastName |-> Field(user, "lastName")]

\* jwt.sign({...payload}, secret): the claims are the payload's defined keys,
\* readable by whoever holds the token
jwtSign(kind, payload) ==
    [t |-> "token", kind |-> kind,
     payload |-> [k \in {x \in DOMAIN payload : payload[x] # Undef} |-> payload[k]]]
signAccessToken(payload) == jwtSign("access", payload)
signRefreshToken(payload) == jwtSign("refresh", payload)

\* jwt.verify(token, secret) returns the claims, or throws
Verifies(token, kind) == token.t = "token" /\ token.kind = kind

TokenPair(payload) ==
    [token |-> signAccessToken(payload), refresh_token |-> signRefreshToken(payload)]

ERR_LoginRequired == "email and password are required"
ERR_InvalidCredentials == "Invalid credentials"
ERR_RefreshRequired == "refresh_token is required"
ERR_RefreshInvalid == "Invalid or expired refresh token"
ERR_RefreshNoUser == "Invalid refresh token (user not found)"
ERR_Unauthorized == "Unauthorized"
ERR_InvalidToken == "Invalid or expired token"
ERR_UserNotFound == "User not found"
ERR_NoUsers == "No users found"
ERR_DuplicateKey == "E11000 duplicate key error collection: users index: email_1"

\* router.post('/auth/login'): findOne selects the password with the rest
PostLogin(body) ==
    \E rawEmail \in {Get(body, "email")}, password \in {Get(body, "password")} :
    /\ UNCHANGED <<req, users>>
    /\ IF \/ ~Truthy(rawEmail) \/ ~IsString(rawEmail)
          \/ ~Truthy(password) \/ ~IsString(password)
       THEN /\ resp' = Response(400, ERR_LoginRequired, Undef)
            /\ UNCHANGED held
       ELSE \E found \in {UsersWithEmail(S(trim(toLowerCase(rawEmail.s))))} :
            IF found = {}
            THEN /\ resp' = Response(401, ERR_InvalidCredentials, Undef)
                 /\ UNCHANGED held
            ELSE \E id \in found :
                 IF ~bcryptCompare(password.s, users[id].password.s)
                 THEN /\ resp' = Response(401, ERR_InvalidCredentials, Undef)
                      /\ UNCHANGED held
                 ELSE /\ resp' = Response(200, "", TokenPair(UserForToken(id, users[id])))
                      /\ held' = resp'.body

\* a refresh that trusts the claims of the token and looks no user up
PostRefreshWithoutLookup(body) ==
    \E token \in {Get(body, "refresh_token")} :
    /\ UNCHANGED <<req, users>>
    /\ IF ~Truthy(token) \/ token.t \notin {"string", "token"}
       THEN /\ resp' = Response(400, ERR_RefreshRequired, Undef)
            /\ UNCHANGED held
       ELSE IF ~Verifies(token, "refresh")
       THEN /\ resp' = Response(401, ERR_RefreshInvalid, Undef)
            /\ UNCHANGED held
       ELSE /\ resp' = Response(200, "", TokenPair(token.payload))
            /\ held' = resp'.body


\* router.post('/auth/refresh'): findOne loads the user without the password,
\* which the schema does not select
PostRefresh(body) ==
    \E token \in {Get(body, "refresh_token")} :
    /\ UNCHANGED <<req, users>>
    /\ IF ~Truthy(token) \/ token.t \notin {"string", "token"}
       THEN /\ resp' = Response(400, ERR_RefreshRequired, Undef)
            /\ UNCHANGED held
       ELSE IF ~Verifies(token, "refresh")
       THEN /\ resp' = Response(401, ERR_RefreshInvalid, Undef)
            /\ UNCHANGED held
       ELSE \E found \in {UsersWithEmail(Trimmed(Lowered(token.payload.email)))} :
            IF found = {}
            THEN /\ resp' = Response(401, ERR_RefreshNoUser, Undef)
                 /\ UNCHANGED held
            ELSE \E id \in found :
                 /\ resp' = Response(200, "",
                                     TokenPair(UserForToken(id, WithoutPassword(users[id]))))
                 /\ held' = resp'.body

(***************************************************************************)
(* routes/users.ts                                                         *)
(***************************************************************************)
\* User.find(filter).select('-password'): the documents in the collection
FoundUsers == {WithoutPassword(users[i]) : i \in {j \in UserIds : users[j] # NoDoc}}

\* router.get('/users', authMiddleware, ...): the middleware answers 401, or
\* hands the claims of the token on as req.user
GetUsers(authorization) ==
    /\ UNCHANGED <<req, users, held>>
    /\ IF ~Truthy(authorization)
       THEN resp' = Response(401, ERR_Unauthorized, Undef)
       ELSE IF ~Verifies(authorization, "access")
       THEN resp' = Response(401, ERR_InvalidToken, Undef)
       ELSE resp' = Response(200, "",
                             [items |-> FoundUsers,
                              count |-> Cardinality(FoundUsers),
                              requester |-> authorization.payload])

\* router.get('/users/:id'); the ids of the requests are well-formed
GetUser(id) ==
    /\ UNCHANGED <<req, users, held>>
    /\ IF users[id] = NoDoc
       THEN resp' = Response(404, ERR_UserNotFound, Undef)
       ELSE resp' = Response(200, "", Sanitized(WithoutPassword(users[id])))

\* router.get('/users-with-flats')
GetUsersWithFlats ==
    /\ UNCHANGED <<req, users, held>>
    /\ IF FoundUsers = {}
       THEN resp' = Response(404, ERR_NoUsers, Undef)
       ELSE resp' = Response(200, "",
                             [users |-> FoundUsers, count |-> Cardinality(FoundUsers)])

\* an allow-list that lets the flats list through as well
PatchAllowedWithFlats ==
    {"age", "email", "firstName", "lastName", "birthDate", "address", "password",
     "flats"}

\* const allowed = [...]
PatchAllowed ==
    {"age", "email", "firstName", "lastName", "birthDate", "address", "password"}

\* for (const key of Object.keys(req.body)) if (allowed.includes(key))
\* user[key] = req.body[key]; a key the schema does not declare is not stored
AssignAllowed(user, body) ==
    [k \in DOMAIN user |->
        IF k \in PatchAllowed /\ k \in DOMAIN body.o
        THEN CastUserPath(k, body.o[k])
        ELSE user[k]]

\* a collection without the unique index
EmailNeverTaken(id, email) == FALSE

\* the unique index on email refuses a second document with the same email
EmailTaken(id, email) == UsersWithEmail(email) \ {id} # {}

\* a save without the pre('save') hook
SavedUserPlain(user, assigned) == assigned

\* user.save(): validation, then the pre('save') hash of a modified password
SavedUser(user, assigned) ==
    IF assigned.password # user.password THEN HashedPassword(assigned) ELSE assigned

\* router.delete('/users/:id'); the ids of the requests are well-formed
DeleteUser(id) ==
    /\ UNCHANGED <<req, held>>
    /\ IF users[id] = NoDoc
       THEN /\ resp' = Response(404, ERR_UserNotFound, Undef)
            /\ UNCHANGED users
       ELSE /\ users' = [users EXCEPT ![id] = NoDoc]
            /\ resp' = Response(200, "", Undef)

\* router.patch('/users/:id')
PatchUser(id, body) ==
    /\ UNCHANGED <<req, held>>
    /\ IF users[id] = NoDoc
       THEN /\ resp' = Response(404, ERR_UserNotFound, Undef)
            /\ UNCHANGED users
       ELSE \E assigned \in {AssignAllowed(users[id], body)} :
            IF ~UserPathsValid(assigned, ValidatedPaths)
            THEN /\ resp' = Response(400, ERR_UserValidation, Undef)
                 /\ UNCHANGED users
            ELSE IF EmailTaken(id, assigned.email)
            THEN /\ resp' = Response(400, ERR_DuplicateKey, Undef)
                 /\ UNCHANGED users
            ELSE /\ users' = [users EXCEPT ![id] = SavedUser(@, assigned)]
                 /\ resp' = Response(200, "", Sanitized(users'[id]))

(***************************************************************************)
(* Requests of the auth and users routes                                   *)
(***************************************************************************)
sEmailA == <<"a", "@", "b", ".", "c">>
sEmailBPad == <<" ", "B", "@", "b", ".", "c">>
sBad == <<"b", "a", "d">>
sSecret == <<"s", "e", "c", "r", "e", "t">>
sSecret2 == <<"s", "e", "c", "r", "e", "t", "2">>
sShort == <<"s", "h", "o", "r", "t">>
sAnn == <<"A", "n", "n">>
sBlank == <<" ">>
sAdmin == <<"a", "d", "m", "i", "n">>

\* every combination of a missing, a malformed and a well-formed field
RegisterBodies ==
    {Payload([email |-> e, address |-> a, age |-> g, firstName |-> f,
              lastName |-> l, password |-> p]) :
        e \in {Undef, S(sBad), S(sEmailA), S(sEmailBPad), N(5)},
        a \in {Undef, S(sA), S(sBlank)},
        g \in {Undef, Null, N(30), N(200), S(sX)},
        f \in {Undef, S(sBlank), S(sAnn)},
        l \in {Undef, S(sAnn)},
        p \in {Undef, S(sShort), S(sSecret)}}

RegisterRequests == {[route |-> "POST /auth/register", body |-> b] : b \in RegisterBodies}

ValidRegisterBody(email) ==
    Payload([email |-> email, address |-> S(sA), age |-> N(30),
             firstName |-> S(sAnn), lastName |-> S(sAnn), password |-> S(sSecret)])

\* the sample of the credential validator: a malformed email, an age out of
\* range and a short password
SampleRegisterBody ==
    Payload([email |-> S(sBad), age |-> N(200), password |-> S(sShort)])

PatchUserBodies ==
    {Payload([age |-> N(40), role |-> S(sAdmin), flats |-> Arr(<<N(1)>>)]),
     Payload([role |-> S(sAdmin), flats |-> Arr(<<N(1)>>)]),
     Payload([email |-> S(sEmailBPad)]),
     Payload([email |-> S(sBad), role |-> S(sAdmin)]),
     Payload([password |-> S(sSecret2), flats |-> Arr(<<N(1)>>)]),
     Payload([password |-> S(sShort)]),
     Payload([age |-> N(200)])}

\* the tokens a client can present: none, text that is no token, and the two
\* it holds
PresentableTokens ==
    {Undef, S(sBad)}
    \cup (IF held = NoTokens THEN {} ELSE {held.token, held.refresh_token})

UserRequests ==
    {[route |-> "POST /auth/register", body |-> b] :
        b \in {ValidRegisterBody(S(sEmailA)), ValidRegisterBody(S(sEmailBPad)),
               SampleRegisterBody}}
    \cup {[route |-> "POST /auth/login",
           body |-> Payload([email |-> e, password |-> p])] :
            e \in {S(sEmailA), S(sEmailBPad)},
            p \in {Undef, S(sSecret), S(sSecret2)}}
    \cup {[route |-> "POST /auth/refresh", body |-> Payload([refresh_token |-> t])] :
            t \in PresentableTokens}
    \cup {[route |-> "GET /users", authorization |-> t] : t \in PresentableTokens}
    \cup {[route |-> "GET /users/:id", id |-> i] : i \in UserIds}
    \cup {[route |-> "GET /users-with-flats"]}
    \cup {[route |-> "PATCH /users/:id", id |-> i, body |-> b] :
            i \in UserIds, b \in PatchUserBodies}

\* requests around the refresh of tokens: login, refresh, and the requests
\* that take the user of a token away or bring one back
RefreshRequests ==
    {[route |-> "POST /auth/login",
      body |-> Payload([email |-> S(sEmailA), password |-> S(sSecret)])]}
    \cup {[route |-> "POST /auth/refresh", body |-> Payload([refresh_token |-> t])] :
            t \in PresentableTokens}
    \cup {[route |-> "DELETE /users/:id", id |-> i] : i \in UserIds}
    \cup {[route |-> "PATCH /users/:id", id |-> i, body |-> Payload([email |-> S(sEmailBPad)])] :
            i \in UserIds}
    \cup {[route |-> "POST /auth/register", body |-> ValidRegisterBody(S(sEmailA))]}

UsersEmpty ==
    /\ users = [i \in UserIds |-> NoDoc]
    /\ held = NoTokens

(***************************************************************************)
(* routes/auth.ts: POST /auth/register, requests that overlap              *)
(***************************************************************************)
\* two requests of the route at a time
SignupSlots == {"first", "second"}

ERR_DuplicateKeyError == "Duplicate key error"

IdleSignup == [pc |-> "idle", body |-> Undef, status |-> 0, error |-> ""]

SignupsIdle == signups = [s \in SignupSlots |-> IdleSignup]

SignupAnswer(slot, status, error) ==
    [slot EXCEPT !.pc = "done", !.status = status, !.error = error]

\* the users that exist or that a request in flight may still create
UsersInSight ==
    Cardinality({i \in UserIds : users[i] # NoDoc})
    + Cardinality({s \in SignupSlots : signups[s].pc = "save"})

\* the checks of the body, then const existing = await User.findOne({email})
SignupFind(s, body) ==
    /\ signups[s].pc = "idle"
    /\ UsersInSight < MaxUsers
    /\ \E errors \in {RegisterErrors(body)} :
          signups' = [signups EXCEPT ![s] =
              IF errors # <<>>
              THEN [SignupAnswer(@, 400, "") EXCEPT !.body = body]
              ELSE IF UsersWithEmail(S(RegisterEmail(body))) # {}
              THEN [SignupAnswer(@, 409, ERR_EmailRegistered) EXCEPT !.body = body]
              ELSE [@ EXCEPT !.pc = "save", !.body = body]]
    /\ UNCHANGED users

\* await user.save(): validation, then the insert, which the unique index on
\* email refuses with code 11000
SignupSave(s) ==
    /\ signups[s].pc = "save"
    /\ \E user \in {NewUser(signups[s].body)} :
          IF ~UserPathsValid(user, ValidatedPaths)
          THEN /\ signups' = [signups EXCEPT ![s] = SignupAnswer(@, 500, ERR_UserValidation)]
               /\ UNCHANGED users
          ELSE IF EmailTaken(0, user.email)
          THEN /\ signups' = [signups EXCEPT ![s] = SignupAnswer(@, 409, ERR_DuplicateKeyError)]
               /\ UNCHANGED users
          ELSE \E id \in FreeUserIds :
               /\ \A j \in FreeUserIds : id <= j
               /\ users' = [users EXCEPT ![id] = HashedPassword(user)]
               /\ signups' = [signups EXCEPT ![s] = SignupAnswer(@, 201, "")]

\* the response is sent
SignupReply(s) ==
    /\ signups[s].pc = "done"
    /\ signups' = [signups EXCEPT ![s] = IdleSignup]
    /\ UNCHANGED users

sEmailAUpper == <<"A", "@", "B", ".", "c">>

SignupBodies ==
    {ValidRegisterBody(S(sEmailA)), ValidRegisterBody(S(sEmailAUpper)),
     ValidRegisterBody(S(sEmailBPad)), SampleRegisterBody}

SignupRequests ==
    {[route |-> "PATCH /users/:id", id |-> i, body |-> b] :
        i \in UserIds,
        b \in {Payload([email |-> S(sEmailBPad)]), Payload([email |-> S(sEmailAUpper)]),
               Payload([email |-> S(sBad)])}}

(***************************************************************************)
(* routes/users.ts and models/InfoCard.ts: the InfoCard routes             *)
(***************************************************************************)
MaxInfoCards == 2
InfoCardIds == 1..MaxInfoCards

ERR_CardIdRequired == "id is required in body"
ERR_CardIdNumber == "id must be a number"
ERR_CardExists == "InfoCard with this id already exists"
ERR_CardNotFound == "InfoCard not found"
ERR_CardValidation == "InfoCard validation failed"

InfoCardsEmpty == infoCards = [i \in InfoCardIds |-> NoDoc]

\* normalizeDetail(d) for the card numericId
normalizeDetail(d, numericId) ==
    [infoCardId |-> IF IsNullish(Get(d, "infoCardId")) THEN N(numericId)
                    ELSE ToNumber(Get(d, "infoCardId")),
     languageId |-> IF IsNullish(Get(d, "languageId")) THEN Undef
                    ELSE ToNumber(Get(d, "languageId")),
     status |-> IF IsNullish(Get(d, "status")) THEN TRUE ELSE Truthy(Get(d, "status"))]

\* Array.isArray(body.details) ? body.details.map(normalizeDetail) : absent
NormalizedDetails(body, numericId, absent) ==
    IF Get(body, "details").t = "array"
    THEN [i \in DOMAIN Get(body, "details").a |->
             normalizeDetail(Get(body, "details").a[i], numericId)]
    ELSE absent

\* InfoCardDetailSchema: the Number paths do not take NaN
DetailsValid(details) ==
    \A i \in DOMAIN details : ~IsNaN(details[i].infoCardId) /\ ~IsNaN(details[i].languageId)

\* router.post('/users/info-card')
PostInfoCard(body) ==
    \E infoCardId \in {IF IsNullish(Get(body, "id")) THEN Get(body, "infoCardId")
                       ELSE Get(body, "id")} :
    /\ UNCHANGED req
    /\ IF IsNullish(infoCardId)
       THEN /\ resp' = Response(400, ERR_CardIdRequired, Undef)
            /\ UNCHANGED infoCards
       ELSE IF IsNaN(ToNumber(infoCardId))
       THEN /\ resp' = Response(400, ERR_CardIdNumber, Undef)
            /\ UNCHANGED infoCards
       ELSE \E numericId \in {ToNumber(infoCardId).n} :
            IF infoCards[numericId] # NoDoc
            THEN /\ resp' = Response(400, ERR_CardExists, Undef)
                 /\ UNCHANGED infoCards
            ELSE \E doc \in {[infoCardId |-> numericId,
                              status |-> IF IsNullish(Get(body, "status")) THEN TRUE
                                         ELSE Truthy(Get(body, "status")),
                              details |-> NormalizedDetails(body, numericId, <<>>)]} :
                 IF ~DetailsValid(doc.details)
                 THEN /\ resp' = Response(400, ERR_CardValidation, Undef)
                      /\ UNCHANGED infoCards
                 ELSE /\ infoCards' = [infoCards EXCEPT ![numericId] = doc]
                      /\ resp' = Response(201, "", doc)

\* router.patch('/users/info-card/:id'); the ids of the requests are numeric
PatchInfoCard(id, body) ==
    /\ UNCHANGED req
    /\ IF infoCards[id] = NoDoc
       THEN /\ resp' = Response(404, ERR_CardNotFound, Undef)
            /\ UNCHANGED infoCards
       ELSE \E doc \in {[infoCards[id] EXCEPT
                           !.status = IF IsNullish(Get(body, "status")) THEN @
                                      ELSE Truthy(Get(body, "status")),
                           !.details = NormalizedDetails(body, id, @)]} :
            IF ~DetailsValid(doc.details)
            THEN /\ resp' = Response(400, ERR_CardValidation, Undef)
                 /\ UNCHANGED infoCards
            ELSE /\ infoCards' = [infoCards EXCEPT ![id] = doc]
                 /\ resp' = Response(200, "", doc)

DetailInputs ==
    {Payload([languageId |-> l, infoCardId |-> Undef, status |-> Undef]) :
        l \in {N(1), S(sOne), N(2), S(sX)}}

MaxDetails == 2
DetailLists == SeqsUpTo(DetailInputs, MaxDetails)

InfoCardBodies ==
    {Payload([id |-> i, infoCardId |-> Undef, status |-> Undef, details |-> Arr(l)]) :
        i \in {N(1), S(sOne), N(2)}, l \in DetailLists}
    \cup {Payload([id |-> Undef, infoCardId |-> i, status |-> B(FALSE), details |-> Undef]) :
            i \in {Undef, N(2), S(sX)}}

InfoCardRequests ==
    {[route |-> "POST /users/info-card", id |-> 0, body |-> b] : b \in InfoCardBodies}
    \cup {[route |-> "PATCH /users/info-card/:id", id |-> i, body |-> b] :
            i \in InfoCardIds, b \in InfoCardBodies}

(***************************************************************************)
(* scripts: backfill of address.street from the legacy location            *)
(***************************************************************************)
MaxLegacy == 2
MaxRuns == 2
LegacyIds == 1..MaxLegacy

\* { location: { $type: 'string', $ne: '' } }
HasLegacyLocation(doc) == IsString(doc.location) /\ doc.location.s # <<>>

\* hasAddress && typeof doc.address.street === 'string' && street.trim() !== ''
hasStreet(doc) ==
    /\ doc.address.t = "object"
    /\ IsString(Get(doc.address, "street"))
    /\ trim(Get(doc.address, "street").s) # <<>>

\* an update that sets the street whether or not the document has one
BackfillAlways(doc) ==
    [doc EXCEPT
        !.location = Undef,
        !.address = Obj([f \in (IF @.t = "object" THEN DOMAIN @.o ELSE {}) \cup {"street"} |->
                            IF f = "street" THEN S(ToStr(doc.location)) ELSE @.o[f]])]

\* the updateOne of a document: $unset location, and $set address.street to
\* String(doc.location) when the document has no street
BackfillUpdate(doc) ==
    IF hasStreet(doc) THEN [doc EXCEPT !.location = Undef]
    ELSE [doc EXCEPT
            !.location = Undef,
            !.address = Obj([f \in (IF @.t = "object" THEN DOMAIN @.o ELSE {}) \cup {"street"} |->
                                IF f = "street" THEN S(ToStr(doc.location)) ELSE @.o[f]])]

\* col.bulkWrite(ops, {ordered: false}) for the documents the find returned
BulkWrite(col) ==
    [i \in DOMAIN col |-> IF HasLegacyLocation(col[i]) THEN BackfillUpdate(col[i]) ELSE col[i]]

\* run(): find, build the operations, and write them unless DRY_RUN
run(dryRun) ==
    /\ migration.runs < MaxRuns
    /\ migration' = [start |-> migration.start,
                     col |-> IF dryRun THEN migration.col ELSE BulkWrite(migration.col),
                     last |-> IF dryRun THEN "dry" ELSE "write",
                     runs |-> migration.runs + 1]

MigrationIdle ==
    migration = [start |-> [i \in LegacyIds |-> [location |-> Undef, address |-> Undef]],
                 col |-> [i \in LegacyIds |-> [location |-> Undef, address |-> Undef]],
                 last |-> "none", runs |-> 0]

sBlank2 == <<" ", " ">>
sOld == <<"O", "l", "d">>

\* documents of the collection: with and without a location, and with no
\* address, an address with a street, with a blank street, with a street that
\* is no string, and with a city only
LegacyDocs ==
    {[location |-> l, address |-> a] :
        l \in {Undef, S(sEmpty), S(sOld), N(5)},
        a \in {Undef, Obj([street |-> S(sA)]), Obj([street |-> S(sBlank2)]),
               Obj([street |-> N(5), city |-> S(sA)]), Obj([city |-> S(sA)])}}

LegacyCollections == [LegacyIds -> LegacyDocs]

(***************************************************************************)
(* routes/flats.ts: POST /assign-flat                                      *)
(***************************************************************************)
MaxSlots == 2
Slots == 1..MaxSlots

ERR_IdsRequired == "userId and flatId are required."
ERR_UserOrFlatNotFound == "User or Flat not found."
ERR_AlreadyAssigned == "Flat is already assigned to this user."
ERR_Internal == "Internal server error."

\* a request of the route: where its handler stands, the ids of its body, the
\* user document it loaded, whether a request for the same pair had been
\* answered 200 when it arrived, whether the flat was in the stored list of the
\* user when it arrived, and its response
IdleSlot ==
    [pc |-> "idle", userId |-> Undef, flatId |-> Undef, user |-> NoDoc,
     after |-> FALSE, listed |-> FALSE, status |-> 0, error |-> "", totalFlats |-> 0]

AssignIdle ==
    /\ userFlats = <<>>
    /\ assign = [s \in Slots |-> IdleSlot]

\* a check that lets every assignment through
NeverAssigned(flatList, flatId) == FALSE

\* user.flats && user.flats.includes(flat._id)
AlreadyAssigned(flatList, flatId) == \E i \in DOMAIN flatList : flatList[i] = flatId

\* UserFlat documents of the pair
JoinsOf(userId, flatId) ==
    {i \in DOMAIN userFlats : userFlats[i] = [userId |-> userId, flatId |-> flatId]}

Answer(slot, status, error) ==
    [slot EXCEPT !.pc = "done", !.status = status, !.error = error]

\* the request arrives; ids that are missing end it with 400
AssignStart(s, body) ==
    \E userId \in {Get(body, "userId")}, flatId \in {Get(body, "flatId")} :
    /\ assign[s].pc = "idle"
    /\ assign' = [assign EXCEPT ![s] =
          IF ~Truthy(userId) \/ ~Truthy(flatId)
          THEN Answer([@ EXCEPT !.userId = userId, !.flatId = flatId],
                      400, ERR_IdsRequired)
          ELSE [@ EXCEPT !.pc = "findUser", !.userId = userId, !.flatId = flatId,
                         !.after = JoinsOf(userId.n, flatId.n) # {},
                         !.listed = /\ users[userId.n] # NoDoc
                                    /\ AlreadyAssigned(users[userId.n].flats, flatId.n)]]
    /\ UNCHANGED <<users, flats, userFlats>>

\* const user = await User.findById(userId)
AssignFindUser(s) ==
    /\ assign[s].pc = "findUser"
    /\ assign' = [assign EXCEPT ![s] =
          [@ EXCEPT !.pc = "findFlat",
                    !.user = IF users[assign[s].userId.n] = NoDoc THEN NoDoc
                             ELSE WithoutPassword(users[assign[s].userId.n])]]
    /\ UNCHANGED <<users, flats, userFlats>>

\* const flat = await Flat.findById(flatId), then the checks and the push
AssignFindFlat(s) ==
    /\ assign[s].pc = "findFlat"
    /\ assign' = [assign EXCEPT ![s] =
          IF @.user = NoDoc \/ flats[@.flatId.n] = NoDoc
          THEN Answer(@, 404, ERR_UserOrFlatNotFound)
          ELSE IF AlreadyAssigned(@.user.flats, @.flatId.n)
          THEN Answer(@, 400, ERR_AlreadyAssigned)
          ELSE [@ EXCEPT !.pc = "saveUser",
                         !.user = [@ EXCEPT !.flats = Append(@, assign[s].flatId.n)]]]
    /\ UNCHANGED <<users, flats, userFlats>>

\* await user.save(): the pushed id is appended to the stored list
AssignSaveUser(s) ==
    /\ assign[s].pc = "saveUser"
    /\ IF users[assign[s].userId.n] = NoDoc
       THEN /\ assign' = [assign EXCEPT ![s] = Answer(@, 500, ERR_Internal)]
            /\ UNCHANGED users
       ELSE /\ users' = [users EXCEPT ![assign[s].userId.n] =
                            [@ EXCEPT !.flats = Append(@, assign[s].flatId.n)]]
            /\ assign' = [assign EXCEPT ![s] = [@ EXCEPT !.pc = "createJoin"]]
    /\ UNCHANGED <<flats, userFlats>>

\* await UserFlat.create({userId, flatId}), then the 200
AssignCreateJoin(s) ==
    /\ assign[s].pc = "createJoin"
    /\ userFlats' = Append(userFlats, [userId |-> assign[s].userId.n,
                                       flatId |-> assign[s].flatId.n])
    /\ assign' = [assign EXCEPT ![s] =
          [Answer(@, 200, "") EXCEPT !.totalFlats = Len(assign[s].user.flats)]]
    /\ UNCHANGED <<users, flats>>

\* a catch that takes the flat out of the stored list again
AssignCreateJoinRollsBack(s) ==
    /\ assign[s].pc = "createJoin"
    /\ assign' = [assign EXCEPT ![s] = Answer(@, 500, ERR_Internal)]
    /\ users' = [users EXCEPT ![assign[s].userId.n] =
                    [@ EXCEPT !.flats = SelectSeq(@, LAMBDA f : f # assign[s].flatId.n)]]
    /\ UNCHANGED <<flats, userFlats>>

\* UserFlat.create rejects: the catch answers 500 and nothing is undone
AssignCreateJoinFails(s) ==
    /\ assign[s].pc = "createJoin"
    /\ assign' = [assign EXCEPT ![s] = Answer(@, 500, ERR_Internal)]
    /\ UNCHANGED <<users, flats, userFlats>>

\* the process stops: the requests in flight end without a response
ProcessStops ==
    /\ \E s \in Slots : assign[s].pc # "idle"
    /\ assign' = [s \in Slots |-> IdleSlot]
    /\ UNCHANGED <<users, flats, userFlats>>

\* the response is sent
AssignReply(s) ==
    /\ assign[s].pc = "done"
    /\ assign' = [assign EXCEPT ![s] = IdleSlot]
    /\ UNCHANGED <<users, flats, userFlats>>

AssignBodies ==
    {Payload([userId |-> u, flatId |-> f]) :
        u \in {Undef} \cup {N(i) : i \in UserIds},
        f \in {Undef} \cup {N(i) : i \in FlatIds}}

\* a user as the register route stores it
SeedUser ==
    [email |-> S(sEmailA), address |-> S(sA), age |-> N(30), firstName |-> S(sAnn),
     lastName |-> S(sAnn), password |-> S(bcryptHash(sSecret)),
     birthDate |-> DateYearsAgo(30), flats |-> <<>>]

UsersSeeded ==
    /\ users = [i \in UserIds |-> IF i = 1 THEN SeedUser ELSE NoDoc]
    /\ held = NoTokens

sStoredHash == bcryptHash(sSecret)

\* requests that name passwords or tokens, next to requests of /assign-flat
PasswordRequests ==
    {[route |-> "PATCH /users/:id", id |-> 1, body |-> b] :
        b \in {Payload([password |-> S(sSecret2), flats |-> Arr(<<N(1)>>)]),
               Payload([password |-> S(sShort)]),
               Payload([password |-> S(sStoredHash)]),
               Payload([age |-> N(40), role |-> S(sAdmin), flats |-> Arr(<<N(1)>>)])}}
    \cup {[route |-> "POST /auth/login",
           body |-> Payload([email |-> S(sEmailA), password |-> p])] :
            p \in {S(sSecret), S(sSecret2)}}
    \cup {[route |-> "POST /auth/refresh", body |-> Payload([refresh_token |-> t])] :
            t \in PresentableTokens}
(***************************************************************************)
(* Specifications                                                          *)
(***************************************************************************)
AddrIdle == addrBody = Undef /\ addrOut = Pending

\* parseAddress on every payload of AddrBodies
InitAddr ==
    /\ addrBody \in AddrBodies
    /\ addrOut = Pending
    /\ HttpIdle
    /\ QuestionsEmpty
    /\ FlatsSeeded
    /\ UsersEmpty
    /\ AssignIdle
    /\ UploadsIdle
    /\ SignupsIdle
    /\ InfoCardsEmpty
    /\ MigrationIdle

\* const address = parseAddress(req.body)
ParseAddressCall ==
    /\ addrOut = Pending
    /\ addrOut' = parseAddress(addrBody)
    /\ UNCHANGED <<addrBody, httpVars, qVars, flatVars, userVars, assignVars, imageVars, restVars>>

NextAddr == ParseAddressCall

SpecAddr == InitAddr /\ [][NextAddr]_vars

\* the questions routes
InitQuestions ==
    /\ AddrIdle
    /\ HttpIdle
    /\ QuestionsEmpty
    /\ FlatsSeeded
    /\ UsersEmpty
    /\ AssignIdle
    /\ UploadsIdle
    /\ SignupsIdle
    /\ InfoCardsEmpty
    /\ MigrationIdle

\* a client sends a request; the collection is capped at MaxQuestions documents
QuestionRequest ==
    /\ HttpIdle
    /\ \E r \in QuestionRequests :
          /\ r.route = "POST /questions" => FreeQuestionIds # {}
          /\ req' = r
    /\ UNCHANGED <<resp, questions>>

NextQuestions ==
    \/ QuestionRequest /\ UNCHANGED <<addrVars, flatVars, userVars, assignVars, imageVars, restVars>>
    \/ Handling("POST /questions") /\ PostQuestion(req.body)
          /\ UNCHANGED <<addrVars, flatVars, userVars, assignVars, imageVars, restVars>>
    \/ Handling("PATCH /questions/:id") /\ PatchQuestion(req.id, req.body)
          /\ UNCHANGED <<addrVars, flatVars, userVars, assignVars, imageVars, restVars>>
    \/ Reply /\ UNCHANGED <<addrVars, qVars, flatVars, userVars, assignVars, imageVars, restVars>>

SpecQuestions == InitQuestions /\ [][NextQuestions]_vars

\* the flats routes
InitFlats ==
    /\ AddrIdle
    /\ HttpIdle
    /\ QuestionsEmpty
    /\ FlatsSeeded
    /\ UsersEmpty
    /\ AssignIdle
    /\ UploadsIdle
    /\ SignupsIdle
    /\ InfoCardsEmpty
    /\ MigrationIdle

\* a client sends a request; creation is offered while an id is left
FlatRequest ==
    /\ HttpIdle
    /\ \E r \in FlatRequests :
          /\ r.route = "POST /flats" => (FreeFlatIds # {} /\ nextImageId <= MaxImageIds)
          /\ req' = r
    /\ UNCHANGED <<resp, flatVars>>

NextFlats ==
    \/ FlatRequest /\ UNCHANGED <<addrVars, qVars, userVars, assignVars, imageVars, restVars>>
    \/ Handling("POST /flats") /\ PostFlat(req.body, req.upload)
          /\ UNCHANGED <<addrVars, qVars, userVars, assignVars, imageVars, restVars>>
    \/ Handling("PATCH /flats/:id") /\ PatchFlat(req.id, req.body)
          /\ UNCHANGED <<addrVars, qVars, userVars, assignVars, imageVars, restVars>>
    \/ Handling("DELETE /flats/:id/images/:imageId")
          /\ DeleteFlatImage(req.id, req.imageId)
          /\ UNCHANGED <<addrVars, qVars, userVars, assignVars, imageVars, restVars>>
    \/ Handling("GET /flats") /\ GetFlats(req.query)
          /\ UNCHANGED <<addrVars, qVars, userVars, assignVars, imageVars, restVars>>
    \/ CleanupSettles /\ UNCHANGED <<addrVars, qVars, userVars, assignVars, imageVars, restVars>>
    \/ Reply /\ UNCHANGED <<addrVars, qVars, flatVars, userVars, assignVars, imageVars, restVars>>

SpecFlats == InitFlats /\ [][NextFlats]_vars


\* the register route on every combination of fields
InitRegister ==
    /\ AddrIdle
    /\ HttpIdle
    /\ QuestionsEmpty
    /\ FlatsSeeded
    /\ UsersEmpty
    /\ AssignIdle
    /\ UploadsIdle
    /\ SignupsIdle
    /\ InfoCardsEmpty
    /\ MigrationIdle

RegisterRequest ==
    /\ HttpIdle
    /\ \E r \in RegisterRequests : req' = r
    /\ UNCHANGED <<resp, userVars>>

NextRegister ==
    \/ RegisterRequest /\ UNCHANGED <<addrVars, qVars, flatVars, assignVars, imageVars, restVars>>
    \/ Handling("POST /auth/register") /\ PostRegister(req.body)
          /\ UNCHANGED <<addrVars, qVars, flatVars, assignVars, imageVars, restVars>>
    \/ Reply /\ UNCHANGED <<addrVars, qVars, flatVars, userVars, assignVars, imageVars, restVars>>

SpecRegister == InitRegister /\ [][NextRegister]_vars

\* the auth and users routes
InitUsers == InitRegister

UserRequest ==
    /\ HttpIdle
    /\ \E r \in UserRequests : req' = r
    /\ UNCHANGED <<resp, userVars>>

NextUsers ==
    \/ UserRequest /\ UNCHANGED <<addrVars, qVars, flatVars, assignVars, imageVars, restVars>>
    \/ Handling("POST /auth/register") /\ PostRegister(req.body)
          /\ UNCHANGED <<addrVars, qVars, flatVars, assignVars, imageVars, restVars>>
    \/ Handling("POST /auth/login") /\ PostLogin(req.body)
          /\ UNCHANGED <<addrVars, qVars, flatVars, assignVars, imageVars, restVars>>
    \/ Handling("POST /auth/refresh") /\ PostRefresh(req.body)
          /\ UNCHANGED <<addrVars, qVars, flatVars, assignVars, imageVars, restVars>>
    \/ Handling("GET /users") /\ GetUsers(req.authorization)
          /\ UNCHANGED <<addrVars, qVars, flatVars, assignVars, imageVars, restVars>>
    \/ Handling("GET /users/:id") /\ GetUser(req.id)
          /\ UNCHANGED <<addrVars, qVars, flatVars, assignVars, imageVars, restVars>>
    \/ Handling("GET /users-with-flats") /\ GetUsersWithFlats
          /\ UNCHANGED <<addrVars, qVars, flatVars, assignVars, imageVars, restVars>>
    \/ Handling("PATCH /users/:id") /\ PatchUser(req.id, req.body)
          /\ UNCHANGED <<addrVars, qVars, flatVars, assignVars, imageVars, restVars>>
    \/ Reply /\ UNCHANGED <<addrVars, qVars, flatVars, userVars, assignVars, imageVars, restVars>>

SpecUsers == InitUsers /\ [][NextUsers]_vars

\* POST /assign-flat, MaxSlots requests at a time
InitAssign ==
    /\ AddrIdle
    /\ HttpIdle
    /\ QuestionsEmpty
    /\ FlatsSeeded
    /\ UsersSeeded
    /\ AssignIdle
    /\ UploadsIdle
    /\ SignupsIdle
    /\ InfoCardsEmpty
    /\ MigrationIdle

NextAssign ==
    \/ \E s \in Slots, body \in AssignBodies :
          AssignStart(s, body) /\ UNCHANGED <<addrVars, httpVars, qVars, nextImageId, cleanup, held, imageVars, restVars>>
    \/ \E s \in Slots :
          AssignFindUser(s) /\ UNCHANGED <<addrVars, httpVars, qVars, nextImageId, cleanup, held, imageVars, restVars>>
    \/ \E s \in Slots :
          AssignFindFlat(s) /\ UNCHANGED <<addrVars, httpVars, qVars, nextImageId, cleanup, held, imageVars, restVars>>
    \/ \E s \in Slots :
          AssignSaveUser(s) /\ UNCHANGED <<addrVars, httpVars, qVars, nextImageId, cleanup, held, imageVars, restVars>>
    \/ \E s \in Slots :
          AssignCreateJoin(s) /\ UNCHANGED <<addrVars, httpVars, qVars, nextImageId, cleanup, held, imageVars, restVars>>
    \/ \E s \in Slots :
          AssignReply(s) /\ UNCHANGED <<addrVars, httpVars, qVars, nextImageId, cleanup, held, imageVars, restVars>>

SpecAssign == InitAssign /\ [][NextAssign]_vars

\* the image routes, with the upload requests of UploadSlots
InitImages == InitFlats

ImageRequest ==
    /\ HttpIdle
    /\ \E r \in ImageRequests : req' = r
    /\ UNCHANGED <<resp, flatVars>>

NextImages ==
    \/ \E s \in UploadSlots, id \in FlatIds, files \in UploadBatches :
          UploadFind(s, id, files)
          /\ UNCHANGED <<addrVars, httpVars, qVars, userVars, assignVars, signups, restVars>>
    \/ \E s \in UploadSlots, failed \in SUBSET (1..2) :
          UploadSettle(s, failed)
          /\ UNCHANGED <<addrVars, httpVars, qVars, userVars, assignVars, signups, restVars>>
    \/ \E s \in UploadSlots :
          UploadSave(s) /\ UNCHANGED <<addrVars, httpVars, qVars, userVars, assignVars, signups, restVars>>
    \/ \E s \in UploadSlots :
          UploadReply(s) /\ UNCHANGED <<addrVars, httpVars, qVars, userVars, assignVars, signups, restVars>>
    \/ ImageRequest /\ UNCHANGED <<addrVars, qVars, userVars, assignVars, imageVars, restVars>>
    \/ Handling("DELETE /flats/:id/images/:imageId")
          /\ DeleteFlatImage(req.id, req.imageId)
          /\ UNCHANGED <<addrVars, qVars, userVars, assignVars, imageVars, restVars>>
    \/ Reply /\ UNCHANGED <<addrVars, qVars, flatVars, userVars, assignVars, imageVars, restVars>>

SpecImages == InitImages /\ [][NextImages]_vars

\* registrations that overlap, and PATCH /users/:id
InitSignup == InitRegister

SignupRequest ==
    /\ HttpIdle
    /\ \E r \in SignupRequests : req' = r
    /\ UNCHANGED <<resp, userVars>>

NextSignup ==
    \/ \E s \in SignupSlots, body \in SignupBodies :
          SignupFind(s, body)
          /\ UNCHANGED <<addrVars, httpVars, qVars, flatVars, assignVars, uploads, held, restVars>>
    \/ \E s \in SignupSlots :
          SignupSave(s)
          /\ UNCHANGED <<addrVars, httpVars, qVars, flatVars, assignVars, uploads, held, restVars>>
    \/ \E s \in SignupSlots :
          SignupReply(s)
          /\ UNCHANGED <<addrVars, httpVars, qVars, flatVars, assignVars, uploads, held, restVars>>
    \/ SignupRequest /\ UNCHANGED <<addrVars, qVars, flatVars, assignVars, imageVars, restVars>>
    \/ Handling("PATCH /users/:id") /\ PatchUser(req.id, req.body)
          /\ UNCHANGED <<addrVars, qVars, flatVars, assignVars, imageVars, restVars>>
    \/ Reply /\ UNCHANGED <<addrVars, qVars, flatVars, userVars, assignVars, imageVars, restVars>>

SpecSignup == InitSignup /\ [][NextSignup]_vars

\* the InfoCard routes
InitCards == InitRegister

InfoCardRequest ==
    /\ HttpIdle
    /\ \E r \in InfoCardRequests : req' = r
    /\ UNCHANGED <<resp, infoCards, migration>>

NextCards ==
    \/ InfoCardRequest
          /\ UNCHANGED <<addrVars, qVars, flatVars, userVars, assignVars, imageVars>>
    \/ Handling("POST /users/info-card") /\ PostInfoCard(req.body)
          /\ UNCHANGED <<addrVars, qVars, flatVars, userVars, assignVars, imageVars, migration>>
    \/ Handling("PATCH /users/info-card/:id") /\ PatchInfoCard(req.id, req.body)
          /\ UNCHANGED <<addrVars, qVars, flatVars, userVars, assignVars, imageVars, migration>>
    \/ Reply /\ UNCHANGED <<addrVars, qVars, flatVars, userVars, assignVars, imageVars, restVars>>

SpecCards == InitCards /\ [][NextCards]_vars

\* /assign-flat next to the routes that read or write passwords
InitPasswords == InitAssign

PasswordRequest ==
    /\ HttpIdle
    /\ \E r \in PasswordRequests : req' = r
    /\ UNCHANGED <<resp, userVars>>

NextPasswords ==
    \/ \E body \in AssignBodies :
          AssignStart(1, body) /\ UNCHANGED <<addrVars, httpVars, qVars, nextImageId, cleanup, held, imageVars, restVars>>
    \/ AssignFindUser(1) /\ UNCHANGED <<addrVars, httpVars, qVars, nextImageId, cleanup, held, imageVars, restVars>>
    \/ AssignFindFlat(1) /\ UNCHANGED <<addrVars, httpVars, qVars, nextImageId, cleanup, held, imageVars, restVars>>
    \/ AssignSaveUser(1) /\ UNCHANGED <<addrVars, httpVars, qVars, nextImageId, cleanup, held, imageVars, restVars>>
    \/ AssignCreateJoin(1) /\ UNCHANGED <<addrVars, httpVars, qVars, nextImageId, cleanup, held, imageVars, restVars>>
    \/ AssignReply(1) /\ UNCHANGED <<addrVars, httpVars, qVars, nextImageId, cleanup, held, imageVars, restVars>>
    \/ PasswordRequest /\ UNCHANGED <<addrVars, qVars, flatVars, assignVars, imageVars, restVars>>
    \/ Handling("PATCH /users/:id") /\ PatchUser(req.id, req.body)
          /\ UNCHANGED <<addrVars, qVars, flatVars, assignVars, imageVars, restVars>>
    \/ Handling("POST /auth/login") /\ PostLogin(req.body)
          /\ UNCHANGED <<addrVars, qVars, flatVars, assignVars, imageVars, restVars>>
    \/ Handling("POST /auth/refresh") /\ PostRefresh(req.body)
          /\ UNCHANGED <<addrVars, qVars, flatVars, assignVars, imageVars, restVars>>
    \/ Reply /\ UNCHANGED <<addrVars, qVars, flatVars, userVars, assignVars, imageVars, restVars>>

SpecPasswords == InitPasswords /\ [][NextPasswords]_vars

\* /assign-flat with a second write that can fail and a process that can stop
InitAssignFaults == InitAssign

\* requests for the stored user: the stored flat and a flat that is not stored
FaultBodies ==
    {Payload([userId |-> N(1), flatId |-> N(f)]) : f \in {1, 2}}

NextAssignFaults ==
    \/ \E s \in Slots, body \in FaultBodies :
          AssignStart(s, body) /\ UNCHANGED <<addrVars, httpVars, qVars, nextImageId, cleanup, held, imageVars, restVars>>
    \/ \E s \in Slots :
          AssignFindUser(s) /\ UNCHANGED <<addrVars, httpVars, qVars, nextImageId, cleanup, held, imageVars, restVars>>
    \/ \E s \in Slots :
          AssignFindFlat(s) /\ UNCHANGED <<addrVars, httpVars, qVars, nextImageId, cleanup, held, imageVars, restVars>>
    \/ \E s \in Slots :
          AssignSaveUser(s) /\ UNCHANGED <<addrVars, httpVars, qVars, nextImageId, cleanup, held, imageVars, restVars>>
    \/ \E s \in Slots :
          AssignCreateJoin(s) /\ UNCHANGED <<addrVars, httpVars, qVars, nextImageId, cleanup, held, imageVars, restVars>>
    \/ \E s \in Slots :
          AssignReply(s) /\ UNCHANGED <<addrVars, httpVars, qVars, nextImageId, cleanup, held, imageVars, restVars>>
    \/ \E s \in Slots :
          AssignCreateJoinFails(s) /\ UNCHANGED <<addrVars, httpVars, qVars, nextImageId, cleanup, held, imageVars, restVars>>
    \/ ProcessStops /\ UNCHANGED <<addrVars, httpVars, qVars, nextImageId, cleanup, held, imageVars, restVars>>

SpecAssignFaults == InitAssignFaults /\ [][NextAssignFaults]_vars

\* the status route of the questions
InitStatus == InitQuestions

StatusRequest ==
    /\ HttpIdle
    /\ \E r \in StatusRequests :
          /\ r.route = "POST /questions" => FreeQuestionIds # {}
          /\ req' = r
    /\ UNCHANGED <<resp, questions>>

NextStatus ==
    \/ StatusRequest /\ UNCHANGED <<addrVars, flatVars, userVars, assignVars, imageVars, restVars>>
    \/ Handling("POST /questions") /\ PostQuestion(req.body)
          /\ UNCHANGED <<addrVars, flatVars, userVars, assignVars, imageVars, restVars>>
    \/ Handling("PATCH /questions/:id") /\ PatchQuestion(req.id, req.body)
          /\ UNCHANGED <<addrVars, flatVars, userVars, assignVars, imageVars, restVars>>
    \/ Handling("POST /questions/change-status/:id") /\ ChangeStatus(req.id, req.body)
          /\ UNCHANGED <<addrVars, flatVars, userVars, assignVars, imageVars, restVars>>
    \/ Reply /\ UNCHANGED <<addrVars, qVars, flatVars, userVars, assignVars, imageVars, restVars>>

SpecStatus == InitStatus /\ [][NextStatus]_vars

\* runs of the backfill script over a collection of legacy documents
InitBackfill ==
    /\ AddrIdle
    /\ HttpIdle
    /\ QuestionsEmpty
    /\ FlatsSeeded
    /\ UsersEmpty
    /\ AssignIdle
    /\ UploadsIdle
    /\ SignupsIdle
    /\ InfoCardsEmpty
    /\ migration \in {[start |-> c, col |-> c, last |-> "none", runs |-> 0] :
                        c \in LegacyCollections}

NextBackfill ==
    \/ run(TRUE)
          /\ UNCHANGED <<addrVars, httpVars, qVars, flatVars, userVars, assignVars, imageVars, infoCards>>
    \/ run(FALSE)
          /\ UNCHANGED <<addrVars, httpVars, qVars, flatVars, userVars, assignVars, imageVars, infoCards>>

SpecBackfill == InitBackfill /\ [][NextBackfill]_vars

\* the refresh of tokens while users come and go
InitRefresh == InitAssign

RefreshRequest ==
    /\ HttpIdle
    /\ \E r \in RefreshRequests :
          /\ r.route = "POST /auth/register" => FreeUserIds # {}
          /\ req' = r
    /\ UNCHANGED <<resp, userVars>>

NextRefresh ==
    \/ RefreshRequest /\ UNCHANGED <<addrVars, qVars, flatVars, assignVars, imageVars, restVars>>
    \/ Handling("POST /auth/register") /\ PostRegister(req.body)
          /\ UNCHANGED <<addrVars, qVars, flatVars, assignVars, imageVars, restVars>>
    \/ Handling("POST /auth/login") /\ PostLogin(req.body)
          /\ UNCHANGED <<addrVars, qVars, flatVars, assignVars, imageVars, restVars>>
    \/ Handling("POST /auth/refresh") /\ PostRefresh(req.body)
          /\ UNCHANGED <<addrVars, qVars, flatVars, assignVars, imageVars, restVars>>
    \/ Handling("DELETE /users/:id") /\ DeleteUser(req.id)
          /\ UNCHANGED <<addrVars, qVars, flatVars, assignVars, imageVars, restVars>>
    \/ Handling("PATCH /users/:id") /\ PatchUser(req.id, req.body)
          /\ UNCHANGED <<addrVars, qVars, flatVars, assignVars, imageVars, restVars>>
    \/ Reply /\ UNCHANGED <<addrVars, qVars, flatVars, userVars, assignVars, imageVars, restVars>>

SpecRefresh == InitRefresh /\ [][NextRefresh]_vars
\* the translations list of the request, <<>> when the body carries no array
ReqTranslations ==
    IF req # NoReq /\ Get(req.body, "translations").t = "array"
    THEN Get(req.body, "translations").a
    ELSE <<>>

\* the request reaches the translation validator: POST always, PATCH once the
\* question was found
ReachesValidator ==
    /\ req # NoReq
    /\ \/ req.route = "POST /questions"
       \/ req.route = "PATCH /questions/:id" /\ questions[req.id] # NoDoc

(***************************************************************************)
(* C6: a translations list with two entries whose language ids are        *)
(* numerically equal after coercion is rejected with 400 by POST          *)
(* /questions and by PATCH /questions/:id, and the rejected request       *)
(* stores nothing.                                                         *)
(***************************************************************************)
C6_HasEqualLanguageIds(list) ==
    \E i, j \in DOMAIN list :
        /\ i < j
        /\ ~IsNaN(ToNumber(Get(list[i], "languageId")))
        /\ ToNumber(Get(list[i], "languageId")) = ToNumber(Get(list[j], "languageId"))

C6_DuplicateRejected ==
    [][(/\ resp = NoResp
        /\ resp' # NoResp
        /\ ReachesValidator
        /\ C6_HasEqualLanguageIds(ReqTranslations))
          => (resp'.status = 400 /\ questions' = questions)]_vars

C6_Witness ==
    /\ req # NoReq
    /\ req.route = "PATCH /questions/:id"
    /\ questions[req.id] # NoDoc
    /\ ReqTranslations = <<Translation(N(1), S(sQ), S(sAns)),
                           Translation(S(sOne), S(sQ2), S(sAns))>>
    /\ resp = Response(400, ERR_DuplicateLanguageId, Undef)

(***************************************************************************)
(* C7: the translation validator is fail-fast.  Translations are examined *)
(* in list order and, within one translation, in the order non-numeric    *)
(* language id, unsupported language id, duplicate language id, empty     *)
(* question or answer; the response carries the reason of the first       *)
(* violation of the list and nothing of later ones.                       *)
(***************************************************************************)
C7_ReasonAt(list, i) ==
    LET id == Get(list[i], "languageId")
        n == ToNumber(id)
    IN IF IsNullish(id) \/ IsNaN(n) THEN ERR_NumericLanguageId
       ELSE IF n.n \notin {1, 2, 3} THEN ERR_LanguageIdNotAllowed
       ELSE IF \E j \in 1..(i - 1) : ToNumber(Get(list[j], "languageId")) = n
            THEN ERR_DuplicateLanguageId
       ELSE IF ~Truthy(Get(list[i], "question")) \/ ~Truthy(Get(list[i], "answer"))
            THEN ERR_QuestionAndAnswer
       ELSE ""

C7_Violating(list) == {i \in DOMAIN list : C7_ReasonAt(list, i) # ""}

C7_FirstReason(list) ==
    LET first == CHOOSE i \in C7_Violating(list) : \A j \in C7_Violating(list) : i <= j
    IN C7_ReasonAt(list, first)

C7_FailFast ==
    (resp # NoResp /\ ReachesValidator /\ ReqTranslations # <<>>)
        => IF C7_Violating(ReqTranslations) # {}
           THEN resp = Response(400, C7_FirstReason(ReqTranslations), Undef)
           ELSE resp.status \in {200, 201}

C7_Witness ==
    /\ resp = Response(400, ERR_LanguageIdNotAllowed, Undef)
    /\ ReachesValidator
    /\ ReqTranslations = <<Translation(N(4), S(sEmpty), S(sAns)),
                           Translation(S(sX), S(sQ), S(sAns))>>

(***************************************************************************)
(* C9: parseAddress yields {street:"A", city:undefined, state:undefined,  *)
(* zip:undefined} for each of the three payloads                          *)
(* {address:'{"street":"A"}'}, {street:"A"} and {location:"A"}.           *)
(***************************************************************************)
C9_Payloads ==
    {Obj([address |-> S(jsonStreetA)]), Obj([street |-> S(sA)]),
     Obj([location |-> S(sA)])}

C9_ThreeShapesOneRecord ==
    (addrOut # Pending /\ addrBody \in C9_Payloads)
        => addrOut = Obj([street |-> S(sA), city |-> Undef, state |-> Undef,
                          zip |-> Undef])

C9_Witness ==
    /\ addrBody = Obj([address |-> S(jsonStreetA)])
    /\ addrOut # Pending

(***************************************************************************)
(* C10: parseAddress returns undefined exactly when the payload has no    *)
(* usable nested address, no truthy street/city/state/zip under any alias *)
(* and no truthy location; an empty nested address object yields a record *)
(* whose four fields are undefined, which is not undefined.               *)
(***************************************************************************)
C10_UsableNested(body) ==
    LET a == Get(body, "address") IN
    \/ a.t \in {"object", "array"}
    \/ /\ IsString(a)
       /\ JSONParse(a.s).ok
       /\ JSONParse(a.s).val.t \in {"object", "array"}

C10_Aliases ==
    {"street", "address_street", "addr_street", "city", "address_city", "addr_city",
     "state", "address_state", "addr_state", "zip", "address_zip", "addr_zip"}

C10_NoSignal(body) ==
    /\ ~C10_UsableNested(body)
    /\ \A k \in C10_Aliases : ~Truthy(Get(body, k))
    /\ ~Truthy(Get(body, "location"))

C10_UndefinedIffNoSignal ==
    addrOut # Pending =>
        /\ (addrOut = Undef) <=> C10_NoSignal(addrBody)
        /\ Get(addrBody, "address") = Obj(NoFields)
              => addrOut = Obj([street |-> Undef, city |-> Undef, state |-> Undef,
                                zip |-> Undef])


(***************************************************************************)
(* Claims about the flats routes                                           *)
(***************************************************************************)
\* C3: in every state reached by POST /flats and PATCH /flats/:id requests,
\* whatever currency they carry, the currency of every stored flat is one of
\* GEL, USD and EUR.
C3_CurrencyInEnum ==
    \A i \in FlatIds :
        flats[i] # NoDoc =>
            /\ IsString(flats[i].currency)
            /\ flats[i].currency.s \in allowedCurrencies

\* the request of C5: square 50, price 1000, a street and one image attached
C5_Request ==
    /\ req # NoReq
    /\ req.route = "POST /flats"
    /\ Get(req.body, "square") = N(50)
    /\ Get(req.body, "price") = N(1000)
    /\ Truthy(parseAddress(req.body))
    /\ Truthy(Get(parseAddress(req.body), "street"))
    /\ Get(req.body, "currency") \in {Undef, S(sLowerUsd)}
    /\ req.upload = ImageFile

\* C5: POST /flats with square 50, price 1000, a valid street and one image is
\* answered 201 with a flat that holds exactly one image, which carries a
\* storage backend and an identifier.
C5_CreatedWithOneImage ==
    (C5_Request /\ resp # NoResp) =>
        /\ resp.status = 201
        /\ Len(resp.body.images) = 1
        /\ resp.body.images[1].storage \in {"local", "firebase", "cloudinary"}
        /\ resp.body.images[1].id \in 1..MaxImageIds

(***************************************************************************)
(* Claims about POST /assign-flat                                          *)
(***************************************************************************)
\* C4: a POST /assign-flat request that arrives after a request for the same
\* user and flat was answered 200 changes neither the user's flats list nor
\* the UserFlat collection, and is answered 400.
C4_SecondAssignRejected ==
    [][\A s \in Slots :
          (assign[s].after /\ assign'[s] # assign[s]) =>
              /\ users' = users
              /\ userFlats' = userFlats
              /\ (assign'[s].pc = "done" => assign'[s].status = 400)]_vars

C4_Witness ==
    \E s \in Slots :
        /\ assign[s].pc = "done"
        /\ assign[s].after
        /\ assign[s].status = 400
        /\ JoinsOf(assign[s].userId.n, assign[s].flatId.n) # {}

(***************************************************************************)
(* Claims about the auth and users routes                                  *)
(***************************************************************************)
C1_Permitted ==
    {"age", "email", "firstName", "lastName", "birthDate", "address", "password"}

StoredPasswords == {users[i].password : i \in {j \in UserIds : users[j] # NoDoc}}

\* a document or a set of claims that holds a stored password
C2_Carries(fields) == "password" \in DOMAIN fields /\ fields.password \in StoredPasswords

\* C2: no response body and no token that login or refresh issues carries a
\* stored password.
C2_PasswordNeverSerialized ==
    (req # NoReq /\ resp.status \in {200, 201}) =>
        CASE req.route = "POST /auth/register" -> ~C2_Carries(resp.body)
          [] req.route \in {"POST /auth/login", "POST /auth/refresh"} ->
                /\ ~C2_Carries(resp.body.token.payload)
                /\ ~C2_Carries(resp.body.refresh_token.payload)
          [] req.route = "GET /users" ->
                /\ \A item \in resp.body.items : ~C2_Carries(item)
                /\ ~C2_Carries(resp.body.requester)
          [] req.route \in {"GET /users/:id", "PATCH /users/:id"} ->
                ~C2_Carries(resp.body)
          [] req.route = "GET /users-with-flats" ->
                \A item \in resp.body.users : ~C2_Carries(item)
          [] OTHER -> TRUE

\* the rule behind each message of the credential validator, stated on the
\* fields of the body
C8_Breaks(message, body) ==
    CASE message = ERR_EmailRequired ->
            ~(IsString(Get(body, "email")) /\ Get(body, "email").s # <<>>)
      [] message = ERR_AddressRequired ->
            ~(IsString(Get(body, "address")) /\ Get(body, "address").s # <<>>)
      [] message = ERR_AgeRequired -> Get(body, "age") \in {Undef, Null}
      [] message = ERR_FirstNameRequired ->
            Get(body, "firstName") \in {Undef, Null}
            \/ \A i \in DOMAIN ToStr(Get(body, "firstName")) :
                  IsSpace(ToStr(Get(body, "firstName"))[i])
      [] message = ERR_LastNameRequired ->
            Get(body, "lastName") \in {Undef, Null}
            \/ \A i \in DOMAIN ToStr(Get(body, "lastName")) :
                  IsSpace(ToStr(Get(body, "lastName"))[i])
      [] message = ERR_PasswordRequired ->
            ~(IsString(Get(body, "password")) /\ Len(Get(body, "password").s) >= 6)
      [] message = ERR_EmailInvalid -> ~MatchesEmail(RegisterEmail(body))
      [] message = ERR_AgeRange ->
            ~(\E n \in 0..150 : RegisterAge(body) = N(n))

C8_Messages ==
    {ERR_EmailRequired, ERR_AddressRequired, ERR_AgeRequired, ERR_FirstNameRequired,
     ERR_LastNameRequired, ERR_PasswordRequired, ERR_EmailInvalid, ERR_AgeRange}

C8_Violations(body) == {m \in C8_Messages : C8_Breaks(m, body)}

\* C8: the register handler answers a body that breaks at least one rule with
\* 400 and a list that holds the message of every broken rule exactly once
\* and no other, and it creates no user.
C8_CollectAll ==
    [][(Handling("POST /auth/register") /\ C8_Violations(req.body) # {}) =>
          /\ resp'.status = 400
          /\ {resp'.body.errors[i] : i \in DOMAIN resp'.body.errors}
                = C8_Violations(req.body)
          /\ Len(resp'.body.errors) = Cardinality(C8_Violations(req.body))
          /\ users' = users]_vars

\* the sample of the claim is answered with the three messages at once
C8_Witness ==
    /\ req # NoReq
    /\ req.route = "POST /auth/register"
    /\ req.body = SampleRegisterBody
    /\ resp.status = 400
    /\ {ERR_EmailInvalid, ERR_AgeRange, ERR_PasswordRequired}
          \subseteq {resp.body.errors[i] : i \in DOMAIN resp.body.errors}

(***************************************************************************)
(* Further claims about parseAddress                                       *)
(***************************************************************************)
\* the payload cut down to some of its keys
OnlyKeys(body, keys) ==
    IF body.t = "object"
    THEN Obj([k \in (DOMAIN body.o) \cap keys |-> body.o[k]])
    ELSE body

C11_FlatKeys ==
    {"street", "address_street", "addr_street", "city", "address_city", "addr_city",
     "state", "address_state", "addr_state", "zip", "address_zip", "addr_zip"}

\* C11: the result is that of the nested address alone when the nested address
\* alone resolves; otherwise that of the flattened fields alone when these
\* resolve; otherwise that of the legacy location alone.  A string address
\* that does not parse raises nothing and is passed over.
C11_ResolutionOrder ==
    addrOut # Pending =>
        /\ addrOut # Thrown
        /\ IF Truthy(parseAddress(OnlyKeys(addrBody, {"address"})))
           THEN addrOut = parseAddress(OnlyKeys(addrBody, {"address"}))
           ELSE IF Truthy(parseAddress(OnlyKeys(addrBody, C11_FlatKeys)))
           THEN addrOut = parseAddress(OnlyKeys(addrBody, C11_FlatKeys))
           ELSE addrOut = parseAddress(OnlyKeys(addrBody, {"location"}))

\* an address that does not parse, a flattened street and a location at once
C11_Witness ==
    /\ addrBody = Obj([address |-> S(notJson), street |-> S(sPadA), location |-> N(5)])
    /\ addrOut = Obj([street |-> S(sA), city |-> Undef, state |-> Undef, zip |-> Undef])

(***************************************************************************)
(* Further claims about the flats routes                                   *)
(***************************************************************************)
\* the normalizer as the claim words it: a present, non-empty code trimmed and
\* upper-cased, undefined otherwise
C12_Normalized(v) ==
    IF IsString(v) /\ trim(v.s) # <<>> THEN S(toUpperCase(trim(v.s))) ELSE Undef

\* C12: on POST /flats, PATCH /flats/:id and GET /flats a currency outside GEL,
\* USD, EUR after trimming and upper-casing is answered 400; an absent or empty
\* one leaves the stored currency (the filter) alone; any other is accepted as
\* its trimmed, upper-cased code.
C12_CurrencyNormalizer ==
    [][/\ (Handling("POST /flats")
            /\ C12_Normalized(Get(req.body, "currency")) # Undef
            /\ C12_Normalized(Get(req.body, "currency")).s \notin allowedCurrencies)
          => resp'.status = 400
       /\ (Handling("GET /flats")) =>
            \E n \in {C12_Normalized(Get(req.query, "currency"))} :
                IF n = Undef
                THEN resp'.status = 200 /\ resp'.body.flats = FlatsByCurrency(Undef)
                ELSE IF n.s \notin allowedCurrencies
                THEN resp'.status = 400
                ELSE resp'.status = 200 /\ resp'.body.flats = FlatsByCurrency(n)
       /\ (Handling("PATCH /flats/:id") /\ flats[req.id] # NoDoc
            /\ ~UpdateConflicts(FlatUpdate(req.body))) =>
            \E n \in {C12_Normalized(Get(req.body, "currency"))} :
                IF n = Undef
                THEN /\ resp'.status = 200
                     /\ flats'[req.id].currency = flats[req.id].currency
                ELSE IF n.s \notin allowedCurrencies
                THEN resp'.status = 400 /\ flats' = flats
                ELSE resp'.status = 200 /\ flats'[req.id].currency = n]_vars

(***************************************************************************)
(* Claims about the image routes                                           *)
(***************************************************************************)
FileNames(images) == [i \in DOMAIN images |-> images[i].filename]

\* the save of upload request s is answered in this step
C13_Saves(s) == uploads[s].pc = "save" /\ uploads'[s].pc = "done"

\* C13: a successful POST /flats/:id/images leaves the flat with the image
\* list that was stored before its save followed by the new records of the
\* request in the order of the files, and an upload request that is not
\* successful leaves every list as it was; this covers requests for the same
\* flat that overlap.
C13_AppendNeverReplaces ==
    [][\A s \in UploadSlots : C13_Saves(s) =>
          IF uploads'[s].status = 201
          THEN LET before == flats[uploads[s].id].images
                   after == flats'[uploads[s].id].images
               IN /\ Len(after) = Len(before) + Len(uploads[s].files)
                  /\ SubSeq(after, 1, Len(before)) = before
                  /\ FileNames(SubSeq(after, Len(before) + 1, Len(after)))
                        = [i \in DOMAIN uploads[s].files |-> uploads[s].files[i].name]
                  /\ uploads'[s].images = after
                  /\ \A j \in FlatIds \ {uploads[s].id} : flats'[j] = flats[j]
          ELSE flats' = flats]_vars

\* two upload requests for the same flat overlapped: both loaded the flat
\* before either saved; one was answered 201 and the other was refused
C13_Witness ==
    \E s, t \in UploadSlots :
        /\ s # t
        /\ uploads[s].pc = "done" /\ uploads[s].status = 201
        /\ uploads[t].pc = "done" /\ uploads[t].error = ERR_VersionError
        /\ uploads[s].id = uploads[t].id
        /\ Len(flats[uploads[s].id].images) = 2

\* C14: the uploads of a request are joined; when one of them failed the
\* request is answered 400 without a save, so the stored list is not changed
\* by it, and a request that is answered 201 had no failed upload and stored
\* a record for every file.
C14_FailureAbortsBatch ==
    /\ [](\A s \in UploadSlots :
            /\ uploads[s].failed # {} =>
                  /\ uploads[s].pc = "done"
                  /\ uploads[s].status = 400
                  /\ uploads[s].images = <<>>
            /\ uploads[s].pc = "save" =>
                  Len(uploads[s].newImages) = Len(uploads[s].files))
    /\ [][\A s \in UploadSlots :
            (uploads[s].pc = "uploading" /\ uploads'[s].pc # "uploading")
               => flats' = flats]_vars

\* one of the two uploads of a request failed, and the request was answered
\* 400 with the list of the flat as it was
C14_Witness ==
    \E s \in UploadSlots :
        /\ uploads[s].pc = "done"
        /\ Len(uploads[s].files) = 2
        /\ Cardinality(uploads[s].failed) = 1
        /\ uploads[s].status = 400
        /\ flats[uploads[s].id] = SeedFlat

AllImages == UNION {{flats[i].images[k] : k \in DOMAIN flats[i].images} :
                        i \in {j \in FlatIds : flats[j] # NoDoc}}

C16_PathOf(storage) ==
    IF storage = "cloudinary" THEN "cloudinary.uploader.destroy" ELSE "fs.promises.unlink"

\* C16: every stored image record carries one of the tags local and
\* cloudinary, the records that POST /flats/:id/images adds carry cloudinary,
\* no step changes the tag of a record, and the removal of a record starts
\* the deletion of its tag and no other.
C16_TagSelectsDeletion ==
    /\ [](\A image \in AllImages : image.storage \in {"local", "cloudinary"})
    /\ [][/\ \A old \in AllImages : \A new \in AllImages' :
                new.id = old.id => new.storage = old.storage
          /\ \A s \in UploadSlots : (C13_Saves(s) /\ uploads'[s].status = 201) =>
                \A new \in AllImages' \ AllImages : new.storage = "cloudinary"
          /\ \A removed \in AllImages \ AllImages' :
                {c.call : c \in {x \in cleanup' \ cleanup : x.image = removed.id}}
                   = {C16_PathOf(removed.storage)}
          /\ \A c \in cleanup' :
                (\A x \in cleanup : x.image # c.image)
                   => \E removed \in AllImages \ AllImages' : removed.id = c.image]_vars

\* a local record and an uploaded record have both been removed
C16_Witness ==
    /\ \E c \in cleanup : c.call = "fs.promises.unlink"
    /\ \E c \in cleanup : c.call = "cloudinary.uploader.destroy"

C15_Removal == req # NoReq /\ req.route = "DELETE /flats/:id/images/:imageId"

\* the handler of the removal answers in this step
C15_Answers == C15_Removal /\ resp = NoResp /\ resp' # NoResp

C17_FailsValidation ==
    /\ req # NoReq
    /\ \/ /\ req.route = "POST /questions"
          /\ \/ Get(req.body, "translations").t # "array"
             \/ ReqTranslations = <<>>
             \/ C7_Violating(ReqTranslations) # {}
       \/ /\ req.route = "PATCH /questions/:id"
          /\ questions[req.id] # NoDoc
          /\ \/ ~Truthy(Get(req.body, "translations"))
             \/ C7_Violating(ReqTranslations) # {}

\* C17: a request whose body fails the validation of its route is answered
\* 400 and the stored questions after it are the stored questions before it.
C17_ValidationAnswers400 ==
    [][(resp = NoResp /\ resp' # NoResp /\ C17_FailsValidation)
          => (resp'.status = 400 /\ questions' = questions)]_vars

\* the request would store an email that another stored user holds
C18_DuplicateEmail ==
    /\ req # NoReq
    /\ \/ /\ req.route = "POST /auth/register"
          /\ RegisterErrors(req.body) = <<>>
          /\ UsersWithEmail(S(RegisterEmail(req.body))) # {}
       \/ /\ req.route = "PATCH /users/:id"
          /\ users[req.id] # NoDoc
          /\ IsString(Get(req.body, "email"))
          /\ UsersWithEmail(Trimmed(Lowered(Get(req.body, "email")))) \ {req.id} # {}

\* C18: a registration or a PATCH /users/:id that would store the email of
\* another stored user is answered 409 and changes no stored user.
C18_DuplicateAnswers409 ==
    [][(resp = NoResp /\ resp' # NoResp /\ C18_DuplicateEmail)
          => (resp'.status = 409 /\ users' = users)]_vars

\* the request presents no token, or one that does not verify for its route
C19_TokenFails ==
    /\ req # NoReq
    /\ \/ /\ req.route = "GET /users"
          /\ ~(Truthy(req.authorization) /\ Verifies(req.authorization, "access"))
       \/ /\ req.route = "POST /auth/refresh"
          /\ LET token == Get(req.body, "refresh_token")
             IN ~(Truthy(token) /\ Verifies(token, "refresh"))

\* C19: GET /users without a verified access token and POST /auth/refresh
\* without a verified refresh token (a missing one included) are answered 401,
\* issue no tokens and change no stored user.
C19_TokenFailureAnswers401 ==
    [][(resp = NoResp /\ resp' # NoResp /\ C19_TokenFails)
          => (resp'.status = 401 /\ users' = users /\ held' = held)]_vars

StoredUsers == {i \in UserIds : users[i] # NoDoc}

\* the save of registration s is answered in this step
C20_Saves(s) == signups[s].pc = "save" /\ signups'[s].pc = "done"

StoredQuestions == {i \in QuestionIds : questions[i] # NoDoc}

LanguageIds(translations) == {translations[i].languageId : i \in DOMAIN translations}

StoredCards == {i \in InfoCardIds : infoCards[i] # NoDoc}

\* C22: in every state reached by POST /users/info-card and PATCH
\* /users/info-card/:id the details of each stored card have pairwise
\* different language ids, and each stored card carries the infoCardId it is
\* stored under, so no two cards share one.
C22_UniqueDetailLanguages ==
    \A c \in StoredCards :
        /\ infoCards[c].infoCardId = c
        /\ \A i, j \in DOMAIN infoCards[c].details :
              (i # j /\ infoCards[c].details[i].languageId # Undef)
                 => infoCards[c].details[i].languageId
                       # infoCards[c].details[j].languageId

(***************************************************************************)
(* Claims about stored passwords                                           *)
(***************************************************************************)
IsHash(v) ==
    /\ IsString(v)
    /\ Len(v.s) > Len(sHashPrefix)
    /\ SubSeq(v.s, 1, Len(sHashPrefix)) = sHashPrefix

\* the request is a PATCH /users/:id of user i whose body has the key password
C23_PatchesPassword(i) ==
    /\ req # NoReq
    /\ req.route = "PATCH /users/:id"
    /\ req.id = i
    /\ "password" \in DOMAIN req.body.o

StoredFlats == {i \in FlatIds : flats[i] # NoDoc}

\* C24: every stored flat has an address object with a non-empty string
\* street, after any sequence of POST /flats and PATCH /flats/:id.
C24_AddressHasStreet ==
    \A i \in StoredFlats :
        /\ flats[i].address.t = "object"
        /\ IsString(Get(flats[i].address, "street"))
        /\ Get(flats[i].address, "street").s # <<>>

(***************************************************************************)
(* Claims about the two writes of POST /assign-flat                        *)
(***************************************************************************)
\* the flat of the pair is in the stored list of the user and no join record
\* of the pair exists
Orphaned(u, f) ==
    /\ users[u] # NoDoc
    /\ AlreadyAssigned(users[u].flats, f)
    /\ JoinsOf(u, f) = {}

\* C25: the user's list is saved before the join record is created; when the
\* creation fails the request is answered 500 with the flat left in the list
\* and no join record, and nothing is undone, also not when the process
\* stops; a request that arrives while the flat is in the list changes neither
\* the list nor the join records and is answered 400.
C25_NoCompensation ==
    [][\A s \in Slots :
          /\ (assign[s].pc = "saveUser" /\ assign'[s].pc = "createJoin")
                => (userFlats' = userFlats
                    /\ AlreadyAssigned(users'[assign[s].userId.n].flats,
                                       assign[s].flatId.n))
          /\ (assign[s].pc = "createJoin" /\ assign'[s].pc # "createJoin"
                /\ userFlats' = userFlats)
                => /\ users' = users
                   /\ AlreadyAssigned(users[assign[s].userId.n].flats, assign[s].flatId.n)
                   /\ (assign'[s].pc = "done" => assign'[s].status = 500)
          /\ (assign[s].listed /\ assign'[s] # assign[s])
                => /\ users' = users
                   /\ userFlats' = userFlats
                   /\ (assign'[s].pc = "done" => assign'[s].status = 400)]_vars

\* after a failed or interrupted second write a later request for the pair was
\* answered 400 and the pair still has no join record
C25_Witness ==
    \E s \in Slots :
        /\ assign[s].pc = "done"
        /\ assign[s].listed
        /\ assign[s].status = 400
        /\ Orphaned(assign[s].userId.n, assign[s].flatId.n)
        /\ \A t \in Slots \ {s} : assign[t].pc = "idle"

(***************************************************************************)
(* Claims about POST /questions/change-status/:id                          *)
(***************************************************************************)
C26_Request ==
    /\ req # NoReq
    /\ req.route = "POST /questions/change-status/:id"
    /\ questions[req.id] # NoDoc

\* C26: on a stored question the status route without a status key stores the
\* negation of active (so a second such call stores the first value again),
\* with a boolean status stores that value, and with any other status answers
\* 400 and stores nothing; translations, categoryId and the other questions are
\* as before in every case.
C26_ToggleOrSet ==
    [][(C26_Request /\ resp = NoResp /\ resp' # NoResp) =>
          LET before == questions[req.id]
              after == questions'[req.id]
              hasStatus == "status" \in DOMAIN req.body.o
          IN /\ after # NoDoc
             /\ after.translations = before.translations
             /\ after.categoryId = before.categoryId
             /\ \A j \in QuestionIds \ {req.id} : questions'[j] = questions[j]
             /\ IF ~hasStatus
                THEN resp'.status = 200 /\ after.active = ~before.active
                     /\ ~after.active = before.active
                ELSE IF req.body.o.status \in {B(TRUE), B(FALSE)}
                THEN resp'.status = 200 /\ after.active = req.body.o.status.b
                ELSE resp'.status = 400 /\ after.active = before.active]_vars

\* a question with a category, created active, was toggled to inactive
C26_Witness ==
    /\ C26_Request
    /\ resp.status = 200
    /\ "status" \notin DOMAIN req.body.o
    /\ questions[req.id].categoryId = N(7)
    /\ questions[req.id].active = FALSE

(***************************************************************************)
(* Claims about the backfill of the legacy location                        *)
(***************************************************************************)
\* C27: a run that writes takes the location from every document whose
\* location is a non-empty string, gives it the location as street when it
\* has no non-blank string street and leaves its street alone otherwise, and
\* leaves the other fields of its address and every other document as they
\* were; a dry run changes nothing; a run after a run that wrote changes
\* nothing.
C27_Backfill ==
    [][LET old == migration.col
           new == migration'.col
       IN /\ migration'.last = "dry" => new = old
          /\ migration'.last = "write" =>
                \A i \in LegacyIds :
                    IF HasLegacyLocation(old[i])
                    THEN /\ new[i].location = Undef
                         /\ IF /\ old[i].address.t = "object"
                               /\ IsString(Get(old[i].address, "street"))
                               /\ trim(Get(old[i].address, "street").s) # <<>>
                            THEN new[i].address = old[i].address
                            ELSE /\ Get(new[i].address, "street") = old[i].location
                                 /\ \A f \in {"city", "state", "zip"} :
                                       Get(new[i].address, f) = Get(old[i].address, f)
                    ELSE new[i] = old[i]
          /\ (migration.last = "write" /\ migration'.last = "write") => new = old]_vars

\* a second run that writes, after a first one gave one document its street
\* and left the street of another alone
C27_Witness ==
    /\ migration.runs = 2
    /\ migration.last = "write"
    /\ migration.start[1] = [location |-> S(sOld), address |-> Undef]
    /\ migration.start[2] = [location |-> S(sOld), address |-> Obj([street |-> S(sA)])]
    /\ migration.col[1] = [location |-> Undef, address |-> Obj([street |-> S(sOld)])]
    /\ migration.col[2] = [location |-> Undef, address |-> Obj([street |-> S(sA)])]

(***************************************************************************)
(* Claims about POST /auth/refresh                                         *)
(***************************************************************************)
\* the request presents a refresh token that verifies
C28_Verifiable ==
    /\ req # NoReq
    /\ req.route = "POST /auth/refresh"
    /\ Truthy(Get(req.body, "refresh_token"))
    /\ Verifies(Get(req.body, "refresh_token"), "refresh")

Occurrences(flatList, f) == Cardinality({i \in DOMAIN flatList : flatList[i] = f})

\* C29: under every interleaving of POST /assign-flat requests a flat is at
\* most once in the flats list of a user and a pair has at most one join
\* record, and when no request is in flight a flat is in the list of a stored
\* user exactly when the pair has a join record.
C29_AssignedOnce ==
    \A u \in StoredUsers : \A f \in FlatIds :
        /\ Occurrences(users[u].flats, f) <= 1
        /\ Cardinality(JoinsOf(u, f)) <= 1
        /\ (\A s \in Slots : assign[s].pc = "idle")
              => (AlreadyAssigned(users[u].flats, f) <=> JoinsOf(u, f) # {})

(***************************************************************************)
(* Claims about the merge of PATCH /questions/:id                          *)
(***************************************************************************)
C30_Request ==
    /\ req # NoReq
    /\ req.route = "PATCH /questions/:id"
    /\ questions[req.id] # NoDoc

\* the positions of the request whose language the stored list does not hold
C30_NewPositions(before, list) ==
    {k \in DOMAIN list :
        \A i \in DOMAIN before :
            before[i].languageId # ToNumber(Get(list[k], "languageId")).n}

\* the elements of list at the positions of set, in the order of list
RECURSIVE C30_Pick(_, _, _)
C30_Pick(list, set, k) ==
    IF k > Len(list) THEN <<>>
    ELSE (IF k \in set THEN <<StoredTranslation(list[k])>> ELSE <<>>)
         \o C30_Pick(list, set, k + 1)

\* C30: a PATCH /questions/:id with a list that passes the validator is
\* answered 200 and stores the stored translations in their positions, each
\* replaced by the translation of the request with its language id when there
\* is one and unchanged otherwise, followed by the translations of the request
\* with new language ids in the order of the request; a PATCH without
\* translations is rejected and stores nothing, a supplied active included.
C30_MergeByLanguage ==
    [][(C30_Request /\ resp = NoResp /\ resp' # NoResp) =>
          LET before == questions[req.id].translations
              after == questions'[req.id].translations
              list == ReqTranslations
          IN /\ ~Truthy(Get(req.body, "translations"))
                   => (resp'.status >= 400 /\ questions' = questions)
             /\ (list # <<>> /\ C7_Violating(list) = {}) =>
                   /\ resp'.status = 200
                   /\ Len(after) >= Len(before)
                   /\ \A i \in DOMAIN before :
                         IF \E k \in DOMAIN list :
                               ToNumber(Get(list[k], "languageId")).n = before[i].languageId
                         THEN \E k \in DOMAIN list : after[i] = StoredTranslation(list[k])
                                                     /\ after[i].languageId = before[i].languageId
                         ELSE after[i] = before[i]
                   /\ SubSeq(after, Len(before) + 1, Len(after))
                         = C30_Pick(list, C30_NewPositions(before, list), 1)]_vars

\* a request with language 2 and then "1" was merged into a question that
\* held language 1 first: the stored order is kept
C30_Witness ==
    /\ C30_Request
    /\ resp.status = 200
    /\ ReqTranslations = <<Translation(N(2), S(sQ), S(sAns)),
                           Translation(S(sOne), S(sQ2), S(sAns))>>
    /\ questions[req.id].translations
          = <<StoredTranslation(Translation(S(sOne), S(sQ2), S(sAns))),
              StoredTranslation(Translation(N(2), S(sQ), S(sAns)))>>
====
